---- MODULE Spec2Model ----
(***************************************************************************)
(* Realtime data synchronisation engine of the dashboard: ApiService       *)
(* (src/unnamed/part_004).  The model covers the rate limiter of           *)
(* fetchWidgetData, the polling scheduler, the raw-WebSocket and Socket.IO *)
(* connection managers and the start/stop facade.                          *)
(*                                                                         *)
(* Time.  The code compares Date.now() with stored timestamps and arms     *)
(* timers with delays.  The model keeps, instead of absolute instants, the *)
(* time elapsed since a stored timestamp (capped where the code can no     *)
(* longer tell the difference) and the time left on every setInterval      *)
(* timer; AdvanceTime moves all of them by TimeStep.  A reconnection timer *)
(* keeps the delay it was armed with and fires at any later moment: the    *)
(* model does not order reconnections against the clock of the rate        *)
(* limiter.                                                                *)
(*                                                                         *)
(* Event loop.  Every action is one run-to-completion task of the single   *)
(* JavaScript thread: a call of the public API, a timer callback, the      *)
(* continuation of an awaited fetch, or a socket event handler.            *)
(***************************************************************************)
EXTENDS Integers, Sequences, FiniteSets, TLC

(***************************************************************************)
(* Program constants (part_004 lines 54-56, 654, 827).                     *)
(***************************************************************************)
MIN_REQUEST_INTERVAL == 1000
MAX_RECONNECT_ATTEMPTS == 5
RECONNECT_DELAY_BASE == 2000
NORMAL_CLOSURE == 1000

\* close codes other than normal closure: going away, abnormal closure
AbnormalCodes == {1001, 1006}

(***************************************************************************)
(* Bounds of the model.                                                    *)
(***************************************************************************)
\* unresolved fetchWidgetData promises per id
MaxInflight == 2
\* live sockets plus pending reconnections per id
MaxSockets == 2
\* live setInterval timers per id
MaxTimers == 2
\* ApiService.test requests in flight
MaxTests == 2
\* fields of the top-level object handed to the data pipeline
MaxFields == 2
MaxEntries == 3

\* granularity of the clock: half of the rate-limit window
TimeStep == MIN_REQUEST_INTERVAL \div 2

Ids == {"w1", "w2"}

\* lastRequestTime.get(id) === undefined
Absent == -1

(***************************************************************************)
(* URLs are character sequences so that startsWith is computed.            *)
(***************************************************************************)
NoUrl == << >>
WsUrl == <<"w", "s", ":", "/", "/", "h">>
WssUrl == <<"w", "s", "s", ":", "/", "/", "h">>
HttpUrl == <<"h", "t", "t", "p", ":", "/", "/", "h">>

startsWith(s, p) == Len(s) >= Len(p) /\ SubSeq(s, 1, Len(p)) = p

\* WidgetConfig values used by the model: socketUrl, socketType, refreshInterval
Configs ==
    { [socketUrl |-> u, socketType |-> "", refreshInterval |-> r] :
          u \in {NoUrl, WsUrl, HttpUrl}, r \in {0, MIN_REQUEST_INTERVAL} }
    \cup { [socketUrl |-> WssUrl, socketType |-> "socket.io", refreshInterval |-> 0] }

\* outcomes of an admitted HTTP request (part_004 lines 223-283)
NetResults == {"ok", "httpError", "timeout", "emptyError"}

PendKinds == {"start", "poll", "user"}
PendKeys == PendKinds \X {"net", "rl"}

VARIABLES
    config,            \* id -> WidgetConfig passed by the consumer for that id
    lastRequestTime,   \* id -> Absent, or ms elapsed since the stored timestamp
    pending,           \* id -> unresolved fetchWidgetData promises, by continuation
    pollingIntervals,  \* id -> TRUE iff the registry has a PollingState for id
    intervalTimers,    \* id -> ms left on each live setInterval timer of id
    sockets,           \* id -> live (not yet closed) socket objects of id
    reconnectTimers,   \* id -> pending setTimeout reconnections of id
    stopped,           \* history: stopDataUpdates(id) ran and no start since
    startsSinceStop,   \* history: startDataUpdates(id) calls since the last stop
    consecAbnormal,    \* history: abnormal closes of id since the last open or start
    terminalCount,     \* history: terminal onError deliveries since the last start
    stoppedInitial,    \* history: stop ran while the initial fetch was pending
    stoppedTimer,      \* history: stop ran while a reconnect timer was pending
    admitAge,          \* history: ms since the last admitted request of id
    callbacks,         \* history: the callbacks the last task invoked, in order
    outcome,           \* history: result of the fetch whose continuation ran last
    lastTask,          \* history: the task that ran last and the id it ran for
    observe,           \* the history variables this specification records
    tests,             \* ApiService.test calls: requests in flight, last result
    input,             \* argument handed to a function of the data pipeline
    output             \* what the functions applied to input returned

vars == << config, lastRequestTime, pending, pollingIntervals, intervalTimers,
           sockets, reconnectTimers, stopped, startsSinceStop, consecAbnormal,
           terminalCount, stoppedInitial, stoppedTimer, admitAge, callbacks,
           outcome, lastTask, observe, tests, input, output >>

(***************************************************************************)
(* JSON values (src/unnamed/part_002 works on the result of JSON.parse).   *)
(* A value is a record: t is its JSON type, s the text of a scalar as a    *)
(* sequence of characters, kids the entries of an object or array in the   *)
(* order of Object.entries (the keys of an array are its indices).         *)
(***************************************************************************)
Digits == <<"0", "1", "2", "3", "4", "5", "6", "7", "8", "9">>

\* String(n) for a natural number
RECURSIVE ToDecimal(_)
ToDecimal(n) ==
    IF n < 10 THEN <<Digits[n + 1]>>
    ELSE ToDecimal(n \div 10) \o <<Digits[(n % 10) + 1]>>

F(k, v) == [k |-> k, v |-> v]

JNull == [t |-> "null", s |-> << >>, kids |-> << >>]
JNum(s) == [t |-> "number", s |-> s, kids |-> << >>]
JStr(s) == [t |-> "string", s |-> s, kids |-> << >>]
JBool(s) == [t |-> "boolean", s |-> s, kids |-> << >>]
JObj(fields) == [t |-> "object", s |-> << >>, kids |-> fields]

RECURSIVE Indexed(_, _)
Indexed(items, i) ==
    IF i > Len(items) THEN << >>
    ELSE <<F(ToDecimal(i - 1), items[i])>> \o Indexed(items, i + 1)

JArr(items) == [t |-> "array", s |-> << >>, kids |-> Indexed(items, 1)]

\* the data pipeline was not invoked
NoInput == JNull
NoOutput ==
    [ applied |-> {}, flat |-> << >>, nested |-> JNull, series |-> FALSE,
      records |-> << >>, headers |-> << >>, tree |-> << >>, paths |-> << >>,
      batch |-> [success |-> FALSE, normalized |-> FALSE, records |-> << >>,
                 totalCount |-> 0] ]

\* value && typeof value === "object"
IsObjectLike(v) == v.t \in {"object", "array"}

KeysOf(fields) == {fields[i].k : i \in DOMAIN fields}

HasKey(fields, k) == k \in KeysOf(fields)

Lookup(fields, k) == fields[CHOOSE i \in DOMAIN fields : fields[i].k = k].v

\* result[k] = v: an existing key keeps its place, a new key goes last
Put(fields, k, v) ==
    IF HasKey(fields, k)
    THEN [i \in DOMAIN fields |-> IF fields[i].k = k THEN F(k, v) ELSE fields[i]]
    ELSE Append(fields, F(k, v))

\* Object.assign(target, source)
RECURSIVE Assign(_, _)
Assign(target, source) ==
    IF source = << >> THEN target
    ELSE Assign(Put(target, Head(source).k, Head(source).v), Tail(source))

Quote == <<"\"">>

\* JSON.stringify of a value whose strings need no escape
RECURSIVE JSON_stringify(_)
RECURSIVE StringifyEntries(_, _, _)
JSON_stringify(v) ==
    IF v.t = "null" THEN <<"n", "u", "l", "l">>
    ELSE IF v.t \in {"number", "boolean"} THEN v.s
    ELSE IF v.t = "string" THEN Quote \o v.s \o Quote
    ELSE IF v.t = "array" THEN <<"[">> \o StringifyEntries(v.kids, 1, FALSE) \o <<"]">>
    ELSE <<"{">> \o StringifyEntries(v.kids, 1, TRUE) \o <<"}">>

StringifyEntries(kids, i, named) ==
    IF i > Len(kids) THEN << >>
    ELSE (IF i > 1 THEN <<",">> ELSE << >>)
         \o (IF named THEN Quote \o kids[i].k \o Quote \o <<":">> ELSE << >>)
         \o JSON_stringify(kids[i].v)
         \o StringifyEntries(kids, i + 1, named)

(***************************************************************************)
(* flattenObject (part_002 lines 164-193).  A DataRecord is the sequence   *)
(* of its entries in insertion order.                                      *)
(***************************************************************************)
\* a key that ignores the prefix
newKey_NoPrefix(prefix, key) == key

\* const newKey = prefix ? `${prefix}.${key}` : key
newKey(prefix, key) == IF prefix # << >> THEN prefix \o <<".">> \o key ELSE key

RECURSIVE flattenObject(_, _)
RECURSIVE flattenEntries(_, _, _, _)
flattenObject(obj, prefix) ==
    IF ~IsObjectLike(obj) THEN << >>
    ELSE flattenEntries(obj.kids, 1, prefix, << >>)

\* the for loop over Object.entries(obj), from entry i on
flattenEntries(entries, i, prefix, result) ==
    IF i > Len(entries) THEN result
    ELSE LET value == entries[i].v
             nk == newKey(prefix, entries[i].k)
             r == IF value.t = "null" THEN Put(result, nk, JNull)
                  ELSE IF value.t = "array"
                  THEN Put(result, nk, JStr(JSON_stringify(value)))
                  ELSE IF value.t = "object"
                  THEN Assign(result, flattenObject(value, nk))
                  ELSE Put(result, nk, value)
         IN  flattenEntries(entries, i + 1, prefix, r)

(***************************************************************************)
(* Strings of part_002 as sequences of characters: the regular             *)
(* expressions of isDateString, Date parsing, parseInt, Number and         *)
(* String.includes are computed on the characters.  A number that may be   *)
(* NaN is [nan, v].  getTime() is counted in days: the inputs are          *)
(* calendar dates, and the sign of a difference of dates is the sign of    *)
(* the difference of their days.                                           *)
(***************************************************************************)
NaN == [nan |-> TRUE, v |-> 0]
Num(n) == [nan |-> FALSE, v |-> n]

IsDigit(c) == \E i \in DOMAIN Digits : Digits[i] = c

DigitValue(c) == (CHOOSE i \in DOMAIN Digits : Digits[i] = c) - 1

AllDigits(s) == \A i \in DOMAIN s : IsDigit(s[i])

\* the value of a sequence of digits
RECURSIVE Value(_)
Value(s) ==
    IF s = << >> THEN 0
    ELSE 10 * Value(SubSeq(s, 1, Len(s) - 1)) + DigitValue(s[Len(s)])

\* the longest prefix of s made of digits
RECURSIVE DigitPrefix(_)
DigitPrefix(s) ==
    IF s = << >> \/ ~IsDigit(Head(s)) THEN << >>
    ELSE <<Head(s)>> \o DigitPrefix(Tail(s))

\* parseInt(s) of a string without leading blanks or sign
parseInt(s) == IF DigitPrefix(s) = << >> THEN NaN ELSE Num(Value(DigitPrefix(s)))

UpperCase == <<"A", "B", "C", "D", "E", "F", "G", "H", "I", "J", "K", "L", "M", "N", "O", "P", "Q", "R", "S", "T", "U", "V", "W", "X", "Y", "Z">>
LowerCase == <<"a", "b", "c", "d", "e", "f", "g", "h", "i", "j", "k", "l", "m", "n", "o", "p", "q", "r", "s", "t", "u", "v", "w", "x", "y", "z">>

toLowerCase(s) ==
    [i \in DOMAIN s |->
        IF \E j \in DOMAIN UpperCase : UpperCase[j] = s[i]
        THEN LowerCase[CHOOSE j \in DOMAIN UpperCase : UpperCase[j] = s[i]]
        ELSE s[i]]

includes(s, sub) ==
    \E i \in 0..(Len(s) - Len(sub)) : SubSeq(s, i + 1, i + Len(sub)) = sub

\* s matches the pattern: "d" stands for a digit, any other character for itself
MatchesAt(s, pattern) ==
    /\ Len(s) >= Len(pattern)
    /\ \A i \in DOMAIN pattern :
          IF pattern[i] = "d" THEN IsDigit(s[i]) ELSE s[i] = pattern[i]

Matches(s, pattern) == Len(s) = Len(pattern) /\ MatchesAt(s, pattern)

\* days from 1970-01-01 to the civil date y-m-d (d may exceed the month)
DaysFromCivil(y, m, d) ==
    LET yy == IF m <= 2 THEN y - 1 ELSE y
        era == yy \div 400
        yoe == yy - era * 400
        mp == (m + 9) % 12
        doy == (153 * mp + 2) \div 5 + d - 1
        doe == yoe * 365 + yoe \div 4 - yoe \div 100 + doy
    IN  era * 146097 + doe - 719468

\* the time value of year, month, day: months 1..12 and days 1..31 are
\* accepted and a day past the end of the month rolls over
MakeDate(y, m, d) ==
    IF m \in 1..12 /\ d \in 1..31 THEN Num(DaysFromCivil(y, m, d)) ELSE NaN

\* the fields of a date written with separators: the runs of digits
RECURSIVE DigitRuns(_, _)
DigitRuns(s, cur) ==
    IF s = << >> THEN <<cur>>
    ELSE IF IsDigit(Head(s)) THEN DigitRuns(Tail(s), Append(cur, Head(s)))
    ELSE <<cur>> \o DigitRuns(Tail(s), << >>)

IsoDate == <<"d", "d", "d", "d", "-", "d", "d", "-", "d", "d">>
SlashDate == <<"d", "d", "d", "d", "/", "d", "d", "/", "d", "d">>
IsoDateTime == IsoDate \o <<"T", "d", "d", ":", "d", "d">>

\* /^\d{1,2}[/-]\d{1,2}[/-]\d{4}$/
IsUsDate(s) ==
    LET r == DigitRuns(s, << >>)
    IN  /\ \A i \in DOMAIN s : IsDigit(s[i]) \/ s[i] \in {"/", "-"}
        /\ Len(r) = 3
        /\ Len(r[1]) \in 1..2 /\ Len(r[2]) \in 1..2 /\ Len(r[3]) = 4

\* /^\d{10,13}$/
IsUnixTimestamp(s) == Len(s) \in 10..13 /\ AllDigits(s)

\* new Date(s).getTime() for the date formats of isDateString; a time of
\* day does not change the day, and a string of 10 to 13 digits is not a
\* date of the Date parser
DateParse(s) ==
    LET r == DigitRuns(s, << >>)
    IN  IF Matches(s, IsoDate) \/ Matches(s, SlashDate)
        THEN MakeDate(Value(r[1]), Value(r[2]), Value(r[3]))
        ELSE IF MatchesAt(s, IsoDateTime)
        THEN IF Len(s) = Len(IsoDateTime)
                \/ (Len(s) = Len(IsoDateTime) + 3 /\ MatchesAt(SubSeq(s, 17, 19), <<":", "d", "d">>))
             THEN MakeDate(Value(r[1]), Value(r[2]), Value(r[3]))
             ELSE NaN
        ELSE IF IsUsDate(s)
        THEN MakeDate(Value(r[3]), Value(r[1]), Value(r[2]))
        ELSE NaN

isDateString(value) ==
    IF Matches(value, IsoDate) THEN ~DateParse(value).nan
    ELSE IF MatchesAt(value, IsoDateTime) THEN ~DateParse(value).nan
    ELSE IF IsUnixTimestamp(value) THEN TRUE
    ELSE IF IsUsDate(value) THEN ~DateParse(value).nan
    ELSE IF Matches(value, SlashDate) THEN ~DateParse(value).nan
    ELSE IF Matches(value, <<"d", "d", "-", "d", "d", "-", "d", "d", "d", "d">>)
    THEN ~DateParse(value).nan
    ELSE FALSE

isDateKey(key) == isDateString(key)

financialKeywords ==
    << <<"o", "p", "e", "n">>,
       <<"h", "i", "g", "h">>,
       <<"l", "o", "w">>,
       <<"c", "l", "o", "s", "e">>,
       <<"v", "o", "l", "u", "m", "e">>,
       <<"p", "r", "i", "c", "e">>,
       <<"r", "a", "t", "e">>,
       <<"v", "a", "l", "u", "e">>,
       <<"1", ".", " ", "o", "p", "e", "n">>,
       <<"2", ".", " ", "h", "i", "g", "h">>,
       <<"3", ".", " ", "l", "o", "w">>,
       <<"4", ".", " ", "c", "l", "o", "s", "e">>,
       <<"5", ".", " ", "v", "o", "l", "u", "m", "e">>,
       <<"a", "d", "j", "_", "c", "l", "o", "s", "e">>,
       <<"a", "d", "j", "u", "s", "t", "e", "d", "_", "c", "l", "o", "s", "e">>,
       <<"v", "w", "a", "p">>,
       <<"t", "y", "p", "i", "c", "a", "l", "_", "p", "r", "i", "c", "e">>,
       <<"b", "i", "d">>,
       <<"a", "s", "k">>,
       <<"s", "p", "r", "e", "a", "d">>,
       <<"s", "m", "a">>,
       <<"e", "m", "a">>,
       <<"r", "s", "i">>,
       <<"m", "a", "c", "d">> >>

\* a decimal literal: digits with an optional fraction
IsDecimal(s) ==
    LET r == DigitRuns(s, << >>)
    IN  /\ s # << >>
        /\ \A i \in DOMAIN s : IsDigit(s[i]) \/ s[i] = "."
        /\ Len(r) \in 1..2
        /\ \E i \in DOMAIN r : r[i] # << >>

\* !isNaN(Number(v)): null, booleans, "" and [] convert to a number, an
\* array of one element converts as its element, an object does not
RECURSIVE IsNumeric(_)
IsNumeric(v) ==
    IF v.t \in {"number", "boolean", "null"} THEN TRUE
    ELSE IF v.t = "string" THEN v.s = << >> \/ IsDecimal(v.s)
    ELSE IF v.t = "array"
    THEN \/ v.kids = << >>
         \/ (Len(v.kids) = 1 /\ v.kids[1].v.t \in {"number", "string", "array"}
                /\ IsNumeric(v.kids[1].v))
    ELSE FALSE

hasFinancialFields(obj) ==
    LET keys == KeysOf(obj.kids)
        matchCount ==
            Cardinality({i \in DOMAIN financialKeywords :
                \E key \in keys :
                    includes(toLowerCase(key), toLowerCase(financialKeywords[i]))})
        numericCount == Cardinality({k \in keys : IsNumeric(Lookup(obj.kids, k))})
    IN  IF matchCount >= 2 THEN TRUE ELSE numericCount >= 2

isFinancialTimeSeries(value) ==
    IF value.t # "object" THEN FALSE
    ELSE IF Len(value.kids) < 2 THEN FALSE
    ELSE IF ~\A i \in DOMAIN value.kids : isDateKey(value.kids[i].k) THEN FALSE
    ELSE IF ~\A i \in DOMAIN value.kids : value.kids[i].v.t = "object" THEN FALSE
    ELSE \E i \in DOMAIN value.kids : hasFinancialFields(value.kids[i].v)

\* String(v)
RECURSIVE ToStr(_)
RECURSIVE JoinKids(_, _)
ToStr(v) ==
    IF v.t = "null" THEN <<"n", "u", "l", "l">>
    ELSE IF v.t = "object" THEN <<"[", "o", "b", "j", "e", "c", "t", " ", "O", "b", "j", "e", "c", "t", "]">>
    ELSE IF v.t = "array" THEN JoinKids(v.kids, 1)
    ELSE v.s

JoinKids(kids, i) ==
    IF i > Len(kids) THEN << >>
    ELSE (IF kids[i].v.t = "null" THEN << >> ELSE ToStr(kids[i].v))
         \o (IF i < Len(kids) THEN <<",">> ELSE << >>)
         \o JoinKids(kids, i + 1)

\* new Date(v).getTime(): a string is parsed, a number is a time in
\* milliseconds, null and booleans are times within the first day, and
\* an array or an object is parsed as its string
getTime(v) ==
    IF v.t = "number"
    THEN IF AllDigits(v.s) THEN Num(Value(v.s) \div 86400000) ELSE NaN
    ELSE IF v.t \in {"null", "boolean"} THEN Num(0)
    ELSE DateParse(ToStr(v))

\* the place of a character in the collation order of strings of
\* separators, digits and lower-case letters: digits before letters
Collation == <<"-", ".", "/", ":", "0", "1", "2", "3", "4", "5", "6", "7", "8", "9">> \o LowerCase

Rank(c) ==
    IF \E i \in DOMAIN Collation : Collation[i] = c
    THEN CHOOSE i \in DOMAIN Collation : Collation[i] = c
    ELSE 0

RECURSIVE localeCompare(_, _)
localeCompare(x, y) ==
    IF x = << >> /\ y = << >> THEN 0
    ELSE IF x = << >> THEN -1
    ELSE IF y = << >> THEN 1
    ELSE IF Rank(Head(x)) < Rank(Head(y)) THEN -1
    ELSE IF Rank(Head(x)) > Rank(Head(y)) THEN 1
    ELSE localeCompare(Tail(x), Tail(y))

\* a[dateKey] of a record; a record always has the field
DateField(a, dateKey) == Lookup(a, dateKey)

\* the comparison function of records.sort
compare(a, b, dateKey) ==
    LET dateA == getTime(DateField(a, dateKey))
        dateB == getTime(DateField(b, dateKey))
        tsA == parseInt(ToStr(DateField(a, dateKey)))
        tsB == parseInt(ToStr(DateField(b, dateKey)))
    IN  IF ~dateA.nan /\ ~dateB.nan THEN dateA.v - dateB.v
        ELSE IF ~tsA.nan /\ ~tsB.nan THEN tsA.v - tsB.v
        ELSE localeCompare(ToStr(DateField(a, dateKey)), ToStr(DateField(b, dateKey)))

\* Array.prototype.sort: a stable sort, by insertion from the left
RECURSIVE Insert(_, _, _)
Insert(sorted, x, dateKey) ==
    IF sorted = << >> THEN <<x>>
    ELSE LET last == sorted[Len(sorted)]
         IN  IF compare(last, x, dateKey) > 0
             THEN Append(Insert(SubSeq(sorted, 1, Len(sorted) - 1), x, dateKey), last)
             ELSE Append(sorted, x)

RECURSIVE sort(_, _)
sort(records, dateKey) ==
    IF records = << >> THEN << >>
    ELSE Insert(sort(SubSeq(records, 1, Len(records) - 1), dateKey),
                records[Len(records)], dateKey)

\* { [dateKey]: timestamp, ...values } is an assignment of the fields of
\* values to the record of the date
DefaultDateKey == <<"d", "a", "t", "e">>

\* normalizeFinancialTimeSeries without the sort
normalizeFinancialTimeSeries_Unsorted(series, dateKey) ==
    [i \in DOMAIN series.kids |->
        Assign(<<F(dateKey, JStr(series.kids[i].k))>>, series.kids[i].v.kids)]

normalizeFinancialTimeSeries(series, dateKey) ==
    LET records ==
            [i \in DOMAIN series.kids |->
                Assign(<<F(dateKey, JStr(series.kids[i].k))>>, series.kids[i].v.kids)]
    IN  sort(records, dateKey)

(***************************************************************************)
(* The headers of a request of part_004: buildAuthHeaders, the merge with  *)
(* DEFAULT_HEADERS and config.headers, and the header list that fetch      *)
(* makes of the merged object.  btoa is computed on the character codes.   *)
(***************************************************************************)
\* the characters of codes 32 to 58; the capital letters follow from code
\* 65 and the small letters from code 97
AsciiLow ==
    <<" ", "!", "\"", "#", "$", "%", "&", "'", "(", ")", "*", "+", ",", "-", ".", "/">> \o
    <<"0", "1", "2", "3", "4", "5", "6", "7", "8", "9", ":">>

charCode(c) ==
    IF \E i \in DOMAIN UpperCase : UpperCase[i] = c
    THEN (CHOOSE i \in DOMAIN UpperCase : UpperCase[i] = c) + 64
    ELSE IF \E i \in DOMAIN LowerCase : LowerCase[i] = c
    THEN (CHOOSE i \in DOMAIN LowerCase : LowerCase[i] = c) + 96
    ELSE (CHOOSE i \in DOMAIN AsciiLow : AsciiLow[i] = c) + 31

Base64Digits ==
    <<"A", "B", "C", "D", "E", "F", "G", "H", "I", "J", "K", "L", "M", "N", "O", "P">> \o
    <<"Q", "R", "S", "T", "U", "V", "W", "X", "Y", "Z", "a", "b", "c", "d", "e", "f">> \o
    <<"g", "h", "i", "j", "k", "l", "m", "n", "o", "p", "q", "r", "s", "t", "u", "v">> \o
    <<"w", "x", "y", "z", "0", "1", "2", "3", "4", "5", "6", "7", "8", "9", "+", "/">>

RECURSIVE btoa(_)
btoa(s) ==
    IF s = << >> THEN << >>
    ELSE LET b1 == charCode(s[1])
             b2 == IF Len(s) >= 2 THEN charCode(s[2]) ELSE 0
             b3 == IF Len(s) >= 3 THEN charCode(s[3]) ELSE 0
             d1 == Base64Digits[b1 \div 4 + 1]
             d2 == Base64Digits[(b1 % 4) * 16 + b2 \div 16 + 1]
             d3 == Base64Digits[(b2 % 16) * 4 + b3 \div 64 + 1]
             d4 == Base64Digits[(b3 % 64) + 1]
         IN  IF Len(s) = 1 THEN <<d1, d2, "=", "=">>
             ELSE IF Len(s) = 2 THEN <<d1, d2, d3, "=">>
             ELSE <<d1, d2, d3, d4>> \o btoa(SubSeq(s, 4, Len(s)))

Str_type == <<"t", "y", "p", "e">>
Str_none == <<"n", "o", "n", "e">>
Str_bearer == <<"b", "e", "a", "r", "e", "r">>
Str_apiKey == <<"a", "p", "i", "-", "k", "e", "y">>
Str_basic == <<"b", "a", "s", "i", "c">>
Str_token == <<"t", "o", "k", "e", "n">>
Str_headerName == <<"h", "e", "a", "d", "e", "r", "N", "a", "m", "e">>
Str_apiKeyValue == <<"a", "p", "i", "K", "e", "y">>
Str_username == <<"u", "s", "e", "r", "n", "a", "m", "e">>
Str_password == <<"p", "a", "s", "s", "w", "o", "r", "d">>
Str_authentication == <<"a", "u", "t", "h", "e", "n", "t", "i", "c", "a", "t", "i", "o", "n">>
Str_headers == <<"h", "e", "a", "d", "e", "r", "s">>
Authorization == <<"A", "u", "t", "h", "o", "r", "i", "z", "a", "t", "i", "o", "n">>

DEFAULT_HEADERS == <<F(<<"C", "o", "n", "t", "e", "n", "t", "-", "T", "y", "p", "e">>, <<"a", "p", "p", "l", "i", "c", "a", "t", "i", "o", "n", "/", "j", "s", "o", "n">>)>>

\* config.authentication and config.headers, absent fields being undefined
AuthOf(cfg) ==
    IF HasKey(cfg.kids, Str_authentication) THEN Lookup(cfg.kids, Str_authentication).kids
    ELSE << >>

HeadersOf(cfg) ==
    IF HasKey(cfg.kids, Str_headers)
    THEN [i \in DOMAIN Lookup(cfg.kids, Str_headers).kids |->
            F(Lookup(cfg.kids, Str_headers).kids[i].k, Lookup(cfg.kids, Str_headers).kids[i].v.s)]
    ELSE << >>

buildAuthHeaders(auth) ==
    IF auth = << >> \/ Lookup(auth, Str_type).s = Str_none THEN << >>
    ELSE LET type == Lookup(auth, Str_type).s
         IN  IF type = Str_bearer
             THEN <<F(Authorization, <<"B", "e", "a", "r", "e", "r", " ">> \o Lookup(auth, Str_token).s)>>
             ELSE IF type = Str_apiKey
             THEN <<F(Lookup(auth, Str_headerName).s, Lookup(auth, Str_apiKeyValue).s)>>
             ELSE IF type = Str_basic
             THEN LET encoded == btoa(Lookup(auth, Str_username).s \o <<":">>
                                        \o Lookup(auth, Str_password).s)
                  IN  <<F(Authorization, <<"B", "a", "s", "i", "c", " ">> \o encoded)>>
             ELSE << >>

\* { ...DEFAULT_HEADERS, ...authHeaders, ...config.headers }
MergedHeaders(cfg) ==
    Assign(Assign(DEFAULT_HEADERS, buildAuthHeaders(AuthOf(cfg))), HeadersOf(cfg))

\* the header list of fetch: names are case-insensitive and the values
\* given under one name are joined by ", "
RECURSIVE HeaderList(_, _)
HeaderList(init, list) ==
    IF init = << >> THEN list
    ELSE LET name == toLowerCase(Head(init).k)
             value == Head(init).v
         IN  HeaderList(Tail(init),
                 IF HasKey(list, name)
                 THEN Put(list, name, Lookup(list, name) \o <<",", " ">> \o value)
                 ELSE Append(list, F(name, value)))

RequestHeaders(cfg) == HeaderList(MergedHeaders(cfg), << >>)

(***************************************************************************)
(* Helpers on sequences and numbers.                                       *)
(***************************************************************************)
Min(a, b) == IF a < b THEN a ELSE b
Max(a, b) == IF a > b THEN a ELSE b

RECURSIVE Pow2(_)
Pow2(n) == IF n <= 0 THEN 1 ELSE 2 * Pow2(n - 1)

RemoveAt(s, i) == SubSeq(s, 1, i - 1) \o SubSeq(s, i + 1, Len(s))

TotalPending(p) ==
    p[<<"start", "net">>] + p[<<"start", "rl">>] + p[<<"poll", "net">>]
    + p[<<"poll", "rl">>] + p[<<"user", "net">>] + p[<<"user", "rl">>]

NetInflight(p) ==
    p[<<"start", "net">>] + p[<<"poll", "net">>] + p[<<"user", "net">>]

Microtasks(p) ==
    p[<<"start", "rl">>] + p[<<"poll", "rl">>] + p[<<"user", "rl">>]

(***************************************************************************)
(* The part of the state that belongs to one widget id, as a record the    *)
(* handlers transform; cb, calls and res collect what the running task did *)
(* (callbacks invoked, fetchWidgetData calls admitted or not, the result   *)
(* the awaited fetchWidgetData promise resolved with).                     *)
(***************************************************************************)
St(id) ==
    [ id |-> id, last |-> lastRequestTime[id], pend |-> pending[id],
      polling |-> pollingIntervals[id], itimers |-> intervalTimers[id],
      socks |-> sockets[id], rtimers |-> reconnectTimers[id],
      stopped |-> stopped[id], cb |-> << >>, calls |-> << >>, res |-> "none" ]

\* the consumer's callbacks
onUpdate(w, arg) ==
    [w EXCEPT !.cb = Append(@, [id |-> w.id, fn |-> "onUpdate", arg |-> arg,
                                afterStop |-> w.stopped])]

onError(w, arg) ==
    [w EXCEPT !.cb = Append(@, [id |-> w.id, fn |-> "onError", arg |-> arg,
                                afterStop |-> w.stopped])]

(***************************************************************************)
(* fetchWidgetData, synchronous part: the rate-limit gate and the issue of *)
(* the request.  kind names the continuation that awaits the promise.      *)
(***************************************************************************)
RateLimited(last) == last # Absent /\ last < MIN_REQUEST_INTERVAL

\* fetchWidgetData without lastRequestTime.set(widgetId, now)
fetchWidgetData_NoStamp(w, kind) ==
    IF RateLimited(w.last)
    THEN [w EXCEPT !.pend[<<kind, "rl">>] = @ + 1,
                   !.calls = Append(@, FALSE)]
    ELSE [w EXCEPT !.pend[<<kind, "net">>] = @ + 1,
                   !.calls = Append(@, TRUE)]

\* fetchWidgetData that restarts the window when it rejects a call
fetchWidgetData_StampOnReject(w, kind) ==
    IF RateLimited(w.last)
    THEN [w EXCEPT !.last = 0,
                   !.pend[<<kind, "rl">>] = @ + 1,
                   !.calls = Append(@, FALSE)]
    ELSE [w EXCEPT !.last = 0,
                   !.pend[<<kind, "net">>] = @ + 1,
                   !.calls = Append(@, TRUE)]

fetchWidgetData(w, kind) ==
    IF RateLimited(w.last)
    THEN [w EXCEPT !.pend[<<kind, "rl">>] = @ + 1,
                   !.calls = Append(@, FALSE)]
    ELSE [w EXCEPT !.last = 0,
                   !.pend[<<kind, "net">>] = @ + 1,
                   !.calls = Append(@, TRUE)]

\* a delivery that gives up polling when the cycle failed
Deliver_StopOnFailure(w, result) ==
    IF result = "ok" THEN onUpdate(w, "data")
    ELSE [onError(w, "error") EXCEPT !.polling = FALSE, !.itimers = << >>]

\* if (result.success && result.data) onUpdate(..) else if (result.error) onError(..)
Deliver(w, result) ==
    IF result = "ok" THEN onUpdate(w, "data")
    ELSE IF result # "emptyError" THEN onError(w, "error")
    ELSE w

(***************************************************************************)
(* Polling scheduler.                                                      *)
(***************************************************************************)
isPolling(w) == w.polling

\* startPolling without the isPolling guard
startPolling_NoGuard(w, c, skipInitialFetch) ==
    LET w1 == IF skipInitialFetch THEN w ELSE fetchWidgetData(w, "poll")
    IN  IF c.refreshInterval > 0
        THEN [w1 EXCEPT !.itimers = Append(@, c.refreshInterval),
                        !.polling = TRUE]
        ELSE w1

startPolling(w, c, skipInitialFetch) ==
    IF isPolling(w) THEN w
    ELSE LET w1 == IF skipInitialFetch THEN w ELSE fetchWidgetData(w, "poll")
         IN  IF c.refreshInterval > 0
             THEN [w1 EXCEPT !.itimers = Append(@, c.refreshInterval),
                             !.polling = TRUE]
             ELSE w1

\* the registered intervalId is the timer created last
stopPolling(w) ==
    IF w.polling
    THEN [w EXCEPT !.itimers = IF Len(@) > 0 THEN SubSeq(@, 1, Len(@) - 1) ELSE @,
                   !.polling = FALSE]
    ELSE w

(***************************************************************************)
(* Socket connection manager.  A socket object of the model carries the    *)
(* SocketState that its handlers close over (reconnectAttempts,            *)
(* reconnectTimeoutId, type) and whether socketConnections maps the id to  *)
(* that SocketState (registered).  wasConnecting and backoff belong to the *)
(* transport: close() called before the handshake, and the attempt count   *)
(* of the Socket.IO manager.                                               *)
(***************************************************************************)
NewSocket(type) ==
    [ type |-> type,
      readyState |-> IF type = "socket.io" THEN "connecting" ELSE "CONNECTING",
      reconnectAttempts |-> 0, registered |-> TRUE, reconnectTimeoutId |-> 0,
      wasConnecting |-> FALSE, backoff |-> 0 ]

\* socketConnections.delete(widgetId)
Unregister(socks) ==
    [i \in DOMAIN socks |-> [socks[i] EXCEPT !.registered = FALSE]]

RegisteredSockets(w) == {i \in DOMAIN w.socks : w.socks[i].registered}

IsLive(s) == s.readyState \in {"CONNECTING", "OPEN", "connecting", "connected", "waiting"}

LiveSockets(socks) == {i \in DOMAIN socks : IsLive(socks[i])}

shouldUseSocketIO(c) ==
    IF c.socketType # ""
    THEN c.socketType = "socket.io"
    ELSE ~startsWith(c.socketUrl, <<"w", "s", ":", "/", "/">>)
         /\ ~startsWith(c.socketUrl, <<"w", "s", "s", ":", "/", "/">>)

isSocketConnected(w) ==
    \E i \in RegisteredSockets(w) :
        IF w.socks[i].type = "socket.io"
        THEN w.socks[i].readyState = "connected"
        ELSE w.socks[i].readyState = "OPEN"

\* new WebSocket(url); socketConnections.set(widgetId, socketState)
startWebSocket(w, c) ==
    [w EXCEPT !.socks = Append(Unregister(@), NewSocket("websocket"))]

\* io(url, {...}); socketConnections.set(widgetId, socketState)
startSocketIO(w, c) ==
    [w EXCEPT !.socks = Append(Unregister(@), NewSocket("socket.io"))]

startSocket(w, c) ==
    IF isSocketConnected(w) THEN w
    ELSE IF c.socketUrl = NoUrl THEN onError(w, "error")
    ELSE IF shouldUseSocketIO(c) THEN startSocketIO(w, c)
    ELSE startWebSocket(w, c)

\* handleSocketMessage that drops the registry entry when processing fails
handleSocketMessage_Drop(w, parsed) ==
    IF parsed THEN onUpdate(w, "incremental")
    ELSE onError([w EXCEPT !.socks = Unregister(@)], "error")

\* handleSocketMessage: parsed is FALSE when the payload cannot be processed
handleSocketMessage(w, parsed) ==
    IF parsed THEN onUpdate(w, "incremental") ELSE onError(w, "error")

\* a timer handle that no pending timer and no SocketState holds
NextHandle(w) ==
    LET used == {w.rtimers[j].h : j \in DOMAIN w.rtimers}
                \cup {w.socks[i].reconnectTimeoutId : i \in DOMAIN w.socks}
    IN  CHOOSE h \in 1..(Cardinality(used) + 1) :
            /\ h \notin used
            /\ \A g \in 1..(h - 1) : g \in used

\* setTimeout(..., delay); the handle is stored in the registered SocketState
scheduleWebSocketReconnect(w, attemptNumber) ==
    LET delay == RECONNECT_DELAY_BASE * Pow2(attemptNumber)
        h == NextHandle(w)
    IN  [w EXCEPT
            !.rtimers = Append(@, [h |-> h, attemptNumber |-> attemptNumber,
                                   delay |-> delay]),
            !.socks = [i \in DOMAIN w.socks |->
                          IF w.socks[i].registered
                          THEN [w.socks[i] EXCEPT !.reconnectTimeoutId = h]
                          ELSE w.socks[i]]]

\* the setTimeout callback of scheduleWebSocketReconnect, for timer j
reconnectCallback(w, c, j) ==
    LET t == w.rtimers[j]
        w0 == [w EXCEPT
                  !.rtimers = RemoveAt(@, j),
                  !.socks = [i \in DOMAIN w.socks |->
                                IF w.socks[i].registered
                                THEN [w.socks[i] EXCEPT
                                         !.reconnectAttempts = t.attemptNumber + 1]
                                ELSE w.socks[i]]]
    IN  startWebSocket(w0, c)

\* onclose that reconnects after a normal closure too
wsOnClose_AnyCode(w, c, i, code) ==
    LET s == w.socks[i]
        w0 == [w EXCEPT !.socks = Unregister(RemoveAt(@, i))]
    IN  IF s.reconnectAttempts < MAX_RECONNECT_ATTEMPTS
        THEN scheduleWebSocketReconnect(w0, s.reconnectAttempts)
        ELSE LET w1 == onError(w0, "maxReconnect")
             IN  IF c.refreshInterval > 0 THEN startPolling(w1, c, FALSE) ELSE w1

\* socket.onclose of WebSocket i with event.code = code
wsOnClose(w, c, i, code) ==
    LET s == w.socks[i]
        w0 == [w EXCEPT !.socks = Unregister(RemoveAt(@, i))]
    IN  IF code # NORMAL_CLOSURE /\ s.reconnectAttempts < MAX_RECONNECT_ATTEMPTS
        THEN scheduleWebSocketReconnect(w0, s.reconnectAttempts)
        ELSE IF s.reconnectAttempts >= MAX_RECONNECT_ATTEMPTS
        THEN LET w1 == onError(w0, "maxReconnect")
             IN  IF c.refreshInterval > 0 THEN startPolling(w1, c, FALSE) ELSE w1
        ELSE w0

\* socket.on("disconnect") of Socket.IO socket i, after the transport moved
sioOnDisconnect(w, c, i) ==
    IF w.socks[i].reconnectAttempts >= MAX_RECONNECT_ATTEMPTS
    THEN LET w1 == onError(w, "maxReconnect")
             w2 == [w1 EXCEPT !.socks = Unregister(@)]
         IN  IF c.refreshInterval > 0 THEN startPolling(w2, c, FALSE) ELSE w2
    ELSE w

clearTimeout(w, h) ==
    [w EXCEPT !.rtimers = SelectSeq(@, LAMBDA t : t.h # h)]

stopSocket(w, c) ==
    IF RegisteredSockets(w) = {} THEN w
    ELSE LET r == CHOOSE i \in RegisteredSockets(w) : TRUE
             s == w.socks[r]
             w1 == IF s.reconnectTimeoutId # 0
                   THEN clearTimeout(w, s.reconnectTimeoutId) ELSE w
         IN  IF s.type = "socket.io"
             THEN \* disconnect() emits "disconnect" synchronously when connected
                  LET w2 == IF s.readyState = "connected"
                            THEN sioOnDisconnect(w1, c, r) ELSE w1
                  IN  [w2 EXCEPT !.socks = Unregister(RemoveAt(@, r))]
             ELSE IF s.readyState \in {"OPEN", "CONNECTING"}
             THEN [w1 EXCEPT !.socks = Unregister(
                      [@ EXCEPT ![r] = [s EXCEPT
                          !.readyState = "CLOSING",
                          !.wasConnecting = (s.readyState = "CONNECTING")]])]
             ELSE [w1 EXCEPT !.socks = Unregister(@)]

(***************************************************************************)
(* Facade.                                                                 *)
(***************************************************************************)
stopDataUpdates(w, c) ==
    LET w1 == stopPolling(stopSocket(w, c))
    IN  [w1 EXCEPT !.stopped = TRUE]

\* for (const [widgetId] of this.socketConnections) this.stopSocket(widgetId)
stopAllSockets(W) == [id \in DOMAIN W |-> stopSocket(W[id], config[id])]

\* for (const [widgetId] of this.pollingIntervals) this.stopPolling(widgetId)
stopAllPolling(W) == [id \in DOMAIN W |-> stopPolling(W[id])]

stopAllDataUpdates(W) == stopAllPolling(stopAllSockets(W))

\* startDataUpdates that starts polling whenever refreshInterval > 0
startContinuation_PollingToo(w, c, result, stopInside) ==
    IF result = "ok"
    THEN LET w1 == onUpdate(w, "data")
             w2 == IF stopInside THEN stopDataUpdates(w1, c) ELSE w1
             w3 == IF c.socketUrl # NoUrl THEN startSocket(w2, c) ELSE w2
         IN  IF c.refreshInterval > 0 THEN startPolling(w3, c, TRUE) ELSE w3
    ELSE Deliver(w, result)

\* the .then continuation of startDataUpdates; stopInside: the consumer
\* calls stopDataUpdates from inside onUpdate
startContinuation(w, c, result, stopInside) ==
    IF result = "ok"
    THEN LET w1 == onUpdate(w, "data")
             w2 == IF stopInside THEN stopDataUpdates(w1, c) ELSE w1
         IN  IF c.socketUrl # NoUrl THEN startSocket(w2, c)
             ELSE IF c.refreshInterval > 0 THEN startPolling(w2, c, TRUE)
             ELSE w2
    ELSE Deliver(w, result)

(***************************************************************************)
(* Connection tester.  test reads its argument only; e is the static state *)
(* of ApiService it could reach.  endpointOk: new URL(config.endpoint)     *)
(* does not throw.  The result is the message of the ApiTestResult.        *)
(***************************************************************************)
Engine ==
    [ pollingIntervals |-> pollingIntervals, socketConnections |-> sockets,
      lastRequestTime |-> lastRequestTime, tests |-> tests ]

TestOutcomes == {"status", "timeout", "error", "success"}

\* test that passes the rate limiter of fetchWidgetData
test_ThroughLimiter(e, endpointOk) ==
    IF ~endpointOk
    THEN [e EXCEPT !.tests.last = "Invalid URL format"]
    ELSE IF \E id \in DOMAIN e.lastRequestTime : RateLimited(e.lastRequestTime[id])
    THEN [e EXCEPT !.tests.last = "rateLimit"]
    ELSE [e EXCEPT !.tests.inflight = @ + 1, !.tests.last = "requested",
                   !.lastRequestTime = [id \in DOMAIN @ |-> 0]]

\* test up to the await of fetch
test(e, endpointOk) ==
    IF ~endpointOk
    THEN [e EXCEPT !.tests.last = "Invalid URL format"]
    ELSE [e EXCEPT !.tests.inflight = @ + 1, !.tests.last = "requested"]

\* test after the await: non-2xx, AbortError, other error, success
testContinuation(e, result) ==
    [e EXCEPT !.tests.inflight = @ - 1, !.tests.last = result]

(***************************************************************************)
(* Writing back the state of one id after a task.                          *)
(***************************************************************************)
WithinBounds(w) ==
    /\ TotalPending(w.pend) <= MaxInflight
    /\ Len(w.socks) + Len(w.rtimers) <= MaxSockets
    /\ Len(w.itimers) <= MaxTimers

\* the new value of lastTask, which the specification records or not
Ran(op, id) == IF "tasks" \in observe THEN [op |-> op, id |-> id] ELSE lastTask

Terminals(cb) == Cardinality({k \in DOMAIN cb : cb[k].arg = "maxReconnect"})

\* the new value of history variable h, which the specification records or not
Record(name, h, id, value) ==
    IF name \in observe THEN [h EXCEPT ![id] = value] ELSE h

Commit(id, op, w) ==
    /\ WithinBounds(w)
    /\ lastRequestTime' = [lastRequestTime EXCEPT ![id] = w.last]
    /\ pending' = [pending EXCEPT ![id] = w.pend]
    /\ pollingIntervals' = [pollingIntervals EXCEPT ![id] = w.polling]
    /\ intervalTimers' = [intervalTimers EXCEPT ![id] = w.itimers]
    /\ sockets' = [sockets EXCEPT ![id] = w.socks]
    /\ reconnectTimers' = [reconnectTimers EXCEPT ![id] = w.rtimers]
    /\ stopped' = [stopped EXCEPT ![id] = w.stopped]
    /\ terminalCount' = Record("closes", terminalCount, id,
           IF op = "startDataUpdates" THEN 0
           ELSE Min(2, terminalCount[id] + Terminals(w.cb)))
    /\ admitAge' = [admitAge EXCEPT
                       ![id] = IF \E k \in DOMAIN w.calls : w.calls[k] THEN 0 ELSE @]
    /\ callbacks' = w.cb
    /\ outcome' = IF "results" \in observe THEN w.res ELSE outcome
    /\ lastTask' = Ran(op, id)
    /\ UNCHANGED << config, observe, tests, input, output >>

\* a macrotask starts only when the microtask queue is empty
NoMicrotasks == \A id \in Ids : Microtasks(pending[id]) = 0

Take(w, kind, how) == [w EXCEPT !.pend[<<kind, how>>] = @ - 1]

\* the promise of continuation kind resolves with result
Resolve(w, kind, how, result) == [Take(w, kind, how) EXCEPT !.res = result]

(***************************************************************************)
(* Calls of the public API by the consumer.                                *)
(***************************************************************************)
StartDataUpdates(id) ==
    /\ Commit(id, "startDataUpdates",
              fetchWidgetData([St(id) EXCEPT !.stopped = FALSE], "start"))
    /\ startsSinceStop' = Record("starts", startsSinceStop, id,
                                 Min(2, startsSinceStop[id] + 1))
    /\ stoppedInitial' = Record("stopInitial", stoppedInitial, id, FALSE)
    /\ stoppedTimer' = Record("stopTimer", stoppedTimer, id, FALSE)
    /\ consecAbnormal' = Record("closes", consecAbnormal, id, 0)

StopDataUpdates(id) ==
    /\ Commit(id, "stopDataUpdates", stopDataUpdates(St(id), config[id]))
    /\ startsSinceStop' = Record("starts", startsSinceStop, id, 0)
    /\ stoppedInitial' = Record("stopInitial", stoppedInitial, id,
           pending[id][<<"start", "net">>] + pending[id][<<"start", "rl">>] > 0)
    /\ stoppedTimer' = Record("stopTimer", stoppedTimer, id,
                              reconnectTimers[id] # << >>)
    /\ UNCHANGED consecAbnormal

\* the callbacks invoked for the ids of S, id after id
RECURSIVE CallbacksOf(_, _)
CallbacksOf(W, S) ==
    IF S = {} THEN << >>
    ELSE LET id == CHOOSE x \in S : TRUE
         IN  W[id].cb \o CallbacksOf(W, S \ {id})

\* the consumer shuts down: ApiService.stopAllDataUpdates()
StopAllDataUpdates ==
    LET W == stopAllDataUpdates([id \in Ids |-> St(id)])
    IN  /\ \A id \in Ids : WithinBounds(W[id])
        /\ lastRequestTime' = [id \in Ids |-> W[id].last]
        /\ pending' = [id \in Ids |-> W[id].pend]
        /\ pollingIntervals' = [id \in Ids |-> W[id].polling]
        /\ intervalTimers' = [id \in Ids |-> W[id].itimers]
        /\ sockets' = [id \in Ids |-> W[id].socks]
        /\ reconnectTimers' = [id \in Ids |-> W[id].rtimers]
        /\ stopped' = [id \in Ids |-> TRUE]
        /\ callbacks' = CallbacksOf(W, Ids)
        /\ outcome' = IF "results" \in observe THEN "none" ELSE outcome
        /\ lastTask' = Ran("stopAllDataUpdates", "all")
        /\ admitAge' = [id \in Ids |->
               IF \E k \in DOMAIN W[id].calls : W[id].calls[k]
               THEN 0 ELSE admitAge[id]]
        /\ terminalCount' =
               IF "closes" \in observe
               THEN [id \in Ids |-> Min(2, terminalCount[id] + Terminals(W[id].cb))]
               ELSE terminalCount
        /\ startsSinceStop' =
               IF "starts" \in observe THEN [id \in Ids |-> 0] ELSE startsSinceStop
        /\ stoppedInitial' =
               IF "stopInitial" \in observe
               THEN [id \in Ids |->
                        pending[id][<<"start", "net">>] + pending[id][<<"start", "rl">>] > 0]
               ELSE stoppedInitial
        /\ stoppedTimer' =
               IF "stopTimer" \in observe
               THEN [id \in Ids |-> reconnectTimers[id] # << >>]
               ELSE stoppedTimer
        /\ UNCHANGED << config, observe, tests, input, output, consecAbnormal >>

\* the static state after a task of the connection tester
CommitEngine(e) ==
    /\ e.tests.inflight <= MaxTests
    /\ tests' = e.tests
    /\ pollingIntervals' = e.pollingIntervals
    /\ sockets' = e.socketConnections
    /\ lastRequestTime' = e.lastRequestTime
    /\ callbacks' = << >>
    /\ outcome' = IF "results" \in observe THEN "none" ELSE outcome
    /\ lastTask' = Ran("test", "all")
    /\ UNCHANGED << config, observe, input, output, pending, intervalTimers,
                    reconnectTimers, stopped, startsSinceStop, consecAbnormal,
                    terminalCount, stoppedInitial, stoppedTimer, admitAge >>

\* the configuration dialog probes an endpoint: ApiService.test(config)
Test ==
    \E endpointOk \in BOOLEAN : CommitEngine(test(Engine, endpointOk))

TestDone ==
    /\ NoMicrotasks
    /\ tests.inflight > 0
    /\ \E result \in TestOutcomes : CommitEngine(testContinuation(Engine, result))

\* the dashboard page starts the polling of a widget:
\* ApiService.startPolling(widget.id, widget.config, onUpdate, onError)
StartPolling(id) ==
    /\ \E c \in {config[id], [config[id] EXCEPT !.refreshInterval = 0]} :
          Commit(id, "startPolling", startPolling(St(id), c, FALSE))
    /\ UNCHANGED << startsSinceStop, consecAbnormal, stoppedInitial, stoppedTimer >>

\* the dashboard page removes a widget: ApiService.stopPolling(id)
StopPolling(id) ==
    /\ Commit(id, "stopPolling", stopPolling(St(id)))
    /\ UNCHANGED << startsSinceStop, consecAbnormal, stoppedInitial, stoppedTimer >>

\* a widget component refreshes itself: ApiService.fetchWidgetData(widget.id, ..)
UserFetch(id) ==
    /\ Commit(id, "fetchWidgetData", fetchWidgetData(St(id), "user"))
    /\ UNCHANGED << startsSinceStop, consecAbnormal, stoppedInitial, stoppedTimer >>

(***************************************************************************)
(* Continuations of fetchWidgetData promises.                              *)
(***************************************************************************)
StartFetchDone(id) ==
    /\ NoMicrotasks
    /\ pending[id][<<"start", "net">>] > 0
    /\ \E result \in NetResults, stopInside \in BOOLEAN :
        /\ stopInside => result = "ok"
        /\ Commit(id, IF stopInside THEN "startContinuation, stopDataUpdates"
                      ELSE "startContinuation",
                  startContinuation(Resolve(St(id), "start", "net", result), config[id],
                                    result, stopInside))
        /\ startsSinceStop' = Record("starts", startsSinceStop, id,
               IF stopInside THEN 0 ELSE startsSinceStop[id])
        /\ stoppedInitial' = Record("stopInitial", stoppedInitial, id,
               IF stopInside THEN TRUE ELSE stoppedInitial[id])
        /\ stoppedTimer' = Record("stopTimer", stoppedTimer, id,
               IF stopInside THEN reconnectTimers[id] # << >> ELSE stoppedTimer[id])
    /\ UNCHANGED consecAbnormal

StartRateLimited(id) ==
    /\ pending[id][<<"start", "rl">>] > 0
    /\ Commit(id, "startContinuation",
              startContinuation(Resolve(St(id), "start", "rl", "rateLimit"), config[id],
                                "rateLimit", FALSE))
    /\ UNCHANGED << startsSinceStop, consecAbnormal, stoppedInitial, stoppedTimer >>

PollFetchDone(id) ==
    /\ NoMicrotasks
    /\ pending[id][<<"poll", "net">>] > 0
    /\ \E result \in NetResults :
        Commit(id, "pollContinuation", Deliver(Resolve(St(id), "poll", "net", result), result))
    /\ UNCHANGED << startsSinceStop, consecAbnormal, stoppedInitial, stoppedTimer >>

PollRateLimited(id) ==
    /\ pending[id][<<"poll", "rl">>] > 0
    /\ Commit(id, "pollContinuation",
              Deliver(Resolve(St(id), "poll", "rl", "rateLimit"), "rateLimit"))
    /\ UNCHANGED << startsSinceStop, consecAbnormal, stoppedInitial, stoppedTimer >>

UserFetchDone(id) ==
    /\ \E how \in {"net", "rl"} :
        /\ pending[id][<<"user", how>>] > 0
        /\ how = "net" => NoMicrotasks
        /\ Commit(id, "userContinuation", Take(St(id), "user", how))
    /\ UNCHANGED << startsSinceStop, consecAbnormal, stoppedInitial, stoppedTimer >>

(***************************************************************************)
(* Timers.                                                                 *)
(***************************************************************************)
\* the setInterval callback of startPolling; the timer re-arms itself
IntervalTick(id) ==
    /\ NoMicrotasks
    /\ \E i \in DOMAIN intervalTimers[id] :
        /\ intervalTimers[id][i] = 0
        /\ Commit(id, "intervalCallback",
                  fetchWidgetData(
                      [St(id) EXCEPT !.itimers[i] = config[id].refreshInterval],
                      "poll"))
    /\ UNCHANGED << startsSinceStop, consecAbnormal, stoppedInitial, stoppedTimer >>

ReconnectTimerFire(id) ==
    /\ NoMicrotasks
    /\ \E j \in DOMAIN reconnectTimers[id] :
        Commit(id, "reconnectCallback", reconnectCallback(St(id), config[id], j))
    /\ UNCHANGED << startsSinceStop, consecAbnormal, stoppedInitial, stoppedTimer >>

TimerDue ==
    \E id \in Ids : \E i \in DOMAIN intervalTimers[id] : intervalTimers[id][i] = 0

Elapse(t) == IF t = Absent THEN Absent ELSE Min(MIN_REQUEST_INTERVAL, t + TimeStep)

AdvanceTime ==
    /\ NoMicrotasks
    /\ ~TimerDue
    /\ lastRequestTime' = [id \in Ids |-> Elapse(lastRequestTime[id])]
    /\ admitAge' = [id \in Ids |-> Elapse(admitAge[id])]
    /\ intervalTimers' = [id \in Ids |->
           [i \in DOMAIN intervalTimers[id] |-> Max(0, intervalTimers[id][i] - TimeStep)]]
    /\ callbacks' = << >>
    /\ outcome' = "none"
    /\ lastTask' = Ran("advance", "all")
    /\ UNCHANGED << config, observe, tests, input, output, pending,
                    pollingIntervals, sockets,
                    reconnectTimers, stopped, startsSinceStop, consecAbnormal, terminalCount,
                    stoppedInitial, stoppedTimer >>

(***************************************************************************)
(* Raw WebSocket events.  The browser delivers message events only while   *)
(* the socket is OPEN; a socket closed by close() before its handshake     *)
(* completed reports an abnormal close code.                               *)
(***************************************************************************)
WebSockets(id) == {i \in DOMAIN sockets[id] : sockets[id][i].type = "websocket"}

SioSockets(id) == {i \in DOMAIN sockets[id] : sockets[id][i].type = "socket.io"}

SetSock(w, i, s) == [w EXCEPT !.socks[i] = s]

CloseCodes(s) ==
    IF s.readyState = "CONNECTING" \/ (s.readyState = "CLOSING" /\ s.wasConnecting)
    THEN AbnormalCodes
    ELSE {NORMAL_CLOSURE} \cup AbnormalCodes

\* socket.onopen
WsOpen(id) ==
    /\ NoMicrotasks
    /\ \E i \in WebSockets(id) :
        /\ sockets[id][i].readyState = "CONNECTING"
        /\ Commit(id, "onopen",
                  SetSock(St(id), i, [sockets[id][i] EXCEPT
                                         !.readyState = "OPEN",
                                         !.reconnectAttempts = 0]))
    /\ consecAbnormal' = Record("closes", consecAbnormal, id, 0)
    /\ UNCHANGED << startsSinceStop, stoppedInitial, stoppedTimer >>

\* socket.onmessage
WsMessage(id) ==
    /\ NoMicrotasks
    /\ \E i \in WebSockets(id), parsed \in BOOLEAN :
        /\ sockets[id][i].readyState = "OPEN"
        /\ Commit(id, "onmessage", handleSocketMessage(St(id), parsed))
    /\ UNCHANGED << startsSinceStop, consecAbnormal, stoppedInitial, stoppedTimer >>

\* socket.onerror
WsError(id) ==
    /\ NoMicrotasks
    /\ \E i \in WebSockets(id) :
        /\ sockets[id][i].readyState \in {"CONNECTING", "OPEN"}
        /\ Commit(id, "onerror", onError(St(id), "error"))
    /\ UNCHANGED << startsSinceStop, consecAbnormal, stoppedInitial, stoppedTimer >>

\* socket.onclose, with a close code among codes
WsCloseWith(id, codes) ==
    /\ NoMicrotasks
    /\ \E i \in WebSockets(id) :
        \E code \in CloseCodes(sockets[id][i]) \cap codes :
            /\ Commit(id, IF code = NORMAL_CLOSURE THEN "onclose 1000" ELSE "onclose",
                      wsOnClose(St(id), config[id], i, code))
            /\ consecAbnormal' = Record("closes", consecAbnormal, id,
                   IF code # NORMAL_CLOSURE
                   THEN Min(MAX_RECONNECT_ATTEMPTS, consecAbnormal[id] + 1)
                   ELSE consecAbnormal[id])
    /\ UNCHANGED << startsSinceStop, stoppedInitial, stoppedTimer >>

WsClose(id) == WsCloseWith(id, {NORMAL_CLOSURE} \cup AbnormalCodes)

WsCloseAbnormal(id) == WsCloseWith(id, AbnormalCodes)

(***************************************************************************)
(* Socket.IO events.  The client library reconnects by itself: a failed    *)
(* connection attempt emits connect_error, then either waits for the next  *)
(* attempt or gives up after reconnectionAttempts attempts; "disconnect"   *)
(* is emitted when a connected socket loses its connection.                *)
(***************************************************************************)
\* socket.on("connect") and socket.io.on("reconnect")
SioConnect(id) ==
    /\ NoMicrotasks
    /\ \E i \in SioSockets(id) :
        /\ sockets[id][i].readyState = "connecting"
        /\ Commit(id, "connect",
                  SetSock(St(id), i, [sockets[id][i] EXCEPT
                                         !.readyState = "connected",
                                         !.reconnectAttempts = 0,
                                         !.backoff = 0]))
    /\ UNCHANGED << startsSinceStop, consecAbnormal, stoppedInitial, stoppedTimer >>

\* socket.on("connect_error")
SioConnectError(id) ==
    /\ NoMicrotasks
    /\ \E i \in SioSockets(id) :
        /\ sockets[id][i].readyState = "connecting"
        /\ Commit(id, "connect_error",
                  onError(SetSock(St(id), i, [sockets[id][i] EXCEPT
                              !.reconnectAttempts = @ + 1,
                              !.readyState =
                                  IF sockets[id][i].backoff >= MAX_RECONNECT_ATTEMPTS
                                  THEN "failed" ELSE "waiting"]),
                          "error"))
    /\ UNCHANGED << startsSinceStop, consecAbnormal, stoppedInitial, stoppedTimer >>

\* socket.io.on("reconnect_attempt")
SioReconnectAttempt(id) ==
    /\ NoMicrotasks
    /\ \E i \in SioSockets(id) :
        /\ sockets[id][i].readyState = "waiting"
        /\ Commit(id, "reconnect_attempt",
                  SetSock(St(id), i, [sockets[id][i] EXCEPT
                                         !.readyState = "connecting",
                                         !.backoff = @ + 1,
                                         !.reconnectAttempts =
                                             sockets[id][i].backoff + 1]))
    /\ UNCHANGED << startsSinceStop, consecAbnormal, stoppedInitial, stoppedTimer >>

\* socket.on("stock_update")
SioStockUpdate(id) ==
    /\ NoMicrotasks
    /\ \E i \in SioSockets(id), parsed \in BOOLEAN :
        /\ sockets[id][i].readyState = "connected"
        /\ Commit(id, "stock_update", handleSocketMessage(St(id), parsed))
    /\ UNCHANGED << startsSinceStop, consecAbnormal, stoppedInitial, stoppedTimer >>

\* socket.on("disconnect"): on "io server disconnect" the handler calls
\* socket.connect(); otherwise the library waits for its next attempt
SioDisconnect(id) ==
    /\ NoMicrotasks
    /\ \E i \in SioSockets(id), reason \in {"io server disconnect", "transport close"} :
        /\ sockets[id][i].readyState = "connected"
        /\ Commit(id, "disconnect",
                  sioOnDisconnect(
                      SetSock(St(id), i, [sockets[id][i] EXCEPT
                          !.readyState = IF reason = "io server disconnect"
                                         THEN "connecting" ELSE "waiting"]),
                      config[id], i))
    /\ UNCHANGED << startsSinceStop, consecAbnormal, stoppedInitial, stoppedTimer >>

(***************************************************************************)
(* Specifications.                                                         *)
(***************************************************************************)
EmptyPending == [k \in PendKeys |-> 0]

\* no task ran
NoTask == [op |-> "none", id |-> "none"]

\* no ApiService.test call was made
NoTests == [inflight |-> 0, last |-> "none"]

\* the synchronisation state, which the data pipeline does not touch
syncVars == << config, lastRequestTime, pending, pollingIntervals, intervalTimers,
               sockets, reconnectTimers, stopped, startsSinceStop, consecAbnormal,
               terminalCount, stoppedInitial, stoppedTimer, admitAge, callbacks,
               outcome, lastTask, observe, tests >>

DefaultConfig ==
    [socketUrl |-> NoUrl, socketType |-> "", refreshInterval |-> MIN_REQUEST_INTERVAL]

Quiescent(cfgs, obs) ==
    /\ config \in {[id \in Ids |-> IF id = "w1" THEN c ELSE DefaultConfig] : c \in cfgs}
    /\ observe = obs
    /\ lastRequestTime = [id \in Ids |-> Absent]
    /\ pending = [id \in Ids |-> EmptyPending]
    /\ pollingIntervals = [id \in Ids |-> FALSE]
    /\ intervalTimers = [id \in Ids |-> << >>]
    /\ sockets = [id \in Ids |-> << >>]
    /\ reconnectTimers = [id \in Ids |-> << >>]
    /\ stopped = [id \in Ids |-> FALSE]
    /\ startsSinceStop = [id \in Ids |-> 0]
    /\ consecAbnormal = [id \in Ids |-> 0]
    /\ terminalCount = [id \in Ids |-> 0]
    /\ stoppedInitial = [id \in Ids |-> FALSE]
    /\ stoppedTimer = [id \in Ids |-> FALSE]
    /\ admitAge = [id \in Ids |-> Absent]
    /\ callbacks = << >>
    /\ outcome = "none"
    /\ lastTask = NoTask
    /\ tests = NoTests

InitWith(cfgs, obs) ==
    /\ Quiescent(cfgs, obs)
    /\ input = NoInput
    /\ output = NoOutput

PollConfigs == {c \in Configs : c.socketUrl = NoUrl}
WsConfigs == {c \in Configs : c.socketUrl # NoUrl /\ ~shouldUseSocketIO(c)}
SioConfigs == {c \in Configs : c.socketUrl # NoUrl /\ shouldUseSocketIO(c)}

\* the source has no pending fetch, no transport and no pending reconnection
Idle(id) ==
    /\ TotalPending(pending[id]) = 0
    /\ ~pollingIntervals[id]
    /\ intervalTimers[id] = << >>
    /\ sockets[id] = << >>
    /\ reconnectTimers[id] = << >>

(***************************************************************************)
(* Spec: a widget without socketUrl (polling transport only); the consumer *)
(* starts and stops it at any moment.                                      *)
(***************************************************************************)
Init == InitWith(PollConfigs, {"starts", "stopInitial", "results"})

Next ==
    \/ StartDataUpdates("w1")
    \/ StopDataUpdates("w1")
    \/ StartFetchDone("w1")
    \/ StartRateLimited("w1")
    \/ PollFetchDone("w1")
    \/ PollRateLimited("w1")
    \/ IntervalTick("w1")
    \/ AdvanceTime

Spec == Init /\ [][Next]_vars

(***************************************************************************)
(* SpecWs: a widget with a ws:// socketUrl (raw WebSocket transport,       *)
(* polling as fallback); the consumer starts and stops it at any moment.   *)
(***************************************************************************)
InitWs == InitWith(WsConfigs, {"starts", "stopTimer"})

NextWs ==
    \/ StartDataUpdates("w1")
    \/ StopDataUpdates("w1")
    \/ StartFetchDone("w1")
    \/ StartRateLimited("w1")
    \/ PollFetchDone("w1")
    \/ PollRateLimited("w1")
    \/ IntervalTick("w1")
    \/ ReconnectTimerFire("w1")
    \/ AdvanceTime
    \/ WsOpen("w1")
    \/ WsMessage("w1")
    \/ WsError("w1")
    \/ WsClose("w1")

SpecWs == InitWs /\ [][NextWs]_vars

\* SpecSocket: the same widget and consumer, with the task of every step
\* recorded
InitSocket == InitWith(WsConfigs, {"tasks"})

SpecSocket == InitSocket /\ [][NextWs]_vars

(***************************************************************************)
(* SpecReconnect: a raw-WebSocket widget that the consumer starts when it  *)
(* is idle and never stops; the closes of its connections are counted.     *)
(* No polling action is listed: NoPollingHere holds, the fallback is never *)
(* taken in these runs.  SpecLive adds that a pending fetch completes, a   *)
(* reconnection timer fires and a connection that does not open closes.    *)
(***************************************************************************)
InitReconnect == InitWith(WsConfigs, {"closes"})

StartWhenIdle(id) == Idle(id) /\ StartDataUpdates(id)

NextReconnect ==
    \/ StartWhenIdle("w1")
    \/ StartFetchDone("w1")
    \/ ReconnectTimerFire("w1")
    \/ AdvanceTime
    \/ WsOpen("w1")
    \/ WsMessage("w1")
    \/ WsError("w1")
    \/ WsClose("w1")

SpecReconnect == InitReconnect /\ [][NextReconnect]_vars

\* SpecClosure: the same widget and consumer, with the task of every step
\* recorded
InitClosure == InitWith(WsConfigs, {"tasks"})

SpecClosure == InitClosure /\ [][NextReconnect]_vars

SpecLive ==
    /\ SpecReconnect
    /\ WF_vars(StartFetchDone("w1"))
    /\ WF_vars(ReconnectTimerFire("w1"))
    /\ WF_vars(WsCloseAbnormal("w1"))

NoPollingHere ==
    /\ ~pollingIntervals["w1"]
    /\ intervalTimers["w1"] = << >>
    /\ pending["w1"][<<"poll", "net">>] + pending["w1"][<<"poll", "rl">>] = 0

(***************************************************************************)
(* SpecSio: a widget with a Socket.IO socketUrl.  NoPollingHere holds.     *)
(***************************************************************************)
InitSio == InitWith(SioConfigs, {"starts"})

NextSio ==
    \/ StartDataUpdates("w1")
    \/ StopDataUpdates("w1")
    \/ StartFetchDone("w1")
    \/ StartRateLimited("w1")
    \/ AdvanceTime
    \/ SioConnect("w1")
    \/ SioConnectError("w1")
    \/ SioReconnectAttempt("w1")
    \/ SioStockUpdate("w1")
    \/ SioDisconnect("w1")

SpecSio == InitSio /\ [][NextSio]_vars

(***************************************************************************)
(* SpecRate: two polling widgets whose components also call                *)
(* fetchWidgetData directly; w1 is started and stopped as well.            *)
(***************************************************************************)
InitRate == InitWith({DefaultConfig}, {})

NextRate ==
    \/ \E id \in Ids : UserFetch(id)
    \/ \E id \in Ids : UserFetchDone(id)
    \/ StartDataUpdates("w1")
    \/ StopDataUpdates("w1")
    \/ StartFetchDone("w1")
    \/ StartRateLimited("w1")
    \/ PollFetchDone("w1")
    \/ PollRateLimited("w1")
    \/ IntervalTick("w1")
    \/ AdvanceTime

SpecRate == InitRate /\ [][NextRate]_vars

(***************************************************************************)
(* SpecStopAll: a raw-WebSocket widget w1 and a polling widget w2, each    *)
(* started when it is idle; the consumer shuts down with                   *)
(* stopAllDataUpdates at any moment.                                       *)
(***************************************************************************)
InitStopAll == InitWith(WsConfigs, {})

NextStopAll ==
    \/ \E id \in Ids : StartWhenIdle(id)
    \/ StopAllDataUpdates
    \/ \E id \in Ids : StartFetchDone(id)
    \/ \E id \in Ids : StartRateLimited(id)
    \/ PollFetchDone("w2")
    \/ IntervalTick("w2")
    \/ ReconnectTimerFire("w1")
    \/ AdvanceTime
    \/ WsOpen("w1")
    \/ WsClose("w1")

SpecStopAll == InitStopAll /\ [][NextStopAll]_vars

(***************************************************************************)
(* SpecTest: a polling or raw-WebSocket widget started when idle and       *)
(* stopped at any moment, while the configuration dialog probes endpoints. *)
(***************************************************************************)
TestConfigs == {c \in PollConfigs : c.refreshInterval > 0} \cup WsConfigs

InitTest == InitWith(TestConfigs, {})

NextTest ==
    \/ Test
    \/ TestDone
    \/ StartWhenIdle("w1")
    \/ StopDataUpdates("w1")
    \/ StartFetchDone("w1")
    \/ StartRateLimited("w1")
    \/ PollFetchDone("w1")
    \/ IntervalTick("w1")
    \/ ReconnectTimerFire("w1")
    \/ AdvanceTime
    \/ WsOpen("w1")
    \/ WsClose("w1")

SpecTest == InitTest /\ [][NextTest]_vars

(***************************************************************************)
(* SpecPoll: two polling widgets whose scheduler the dashboard page drives *)
(* directly with startPolling and stopPolling, next to the facade and to   *)
(* the shutdown of the consumer; the tasks are recorded.                   *)
(***************************************************************************)
InitPoll == InitWith({DefaultConfig}, {"tasks"})

NextPoll ==
    \/ \E id \in Ids : StartPolling(id)
    \/ \E id \in Ids : StopPolling(id)
    \/ StartDataUpdates("w1")
    \/ StopDataUpdates("w1")
    \/ StopAllDataUpdates
    \/ StartFetchDone("w1")
    \/ StartRateLimited("w1")
    \/ \E id \in Ids : PollFetchDone(id)
    \/ \E id \in Ids : PollRateLimited(id)
    \/ \E id \in Ids : IntervalTick(id)
    \/ AdvanceTime

SpecPoll == InitPoll /\ [][NextPoll]_vars

(***************************************************************************)
(* SpecFlatten: flattenObject applied to a JSON value, then the flat       *)
(* record re-nested by splitting its keys on ".".                          *)
(***************************************************************************)
KeyA == <<"a">>
KeyB == <<"b">>
KeyAB == <<"a", ".", "b">>
KeyEmpty == << >>

Keys == {KeyA, KeyB, KeyAB, KeyEmpty}

One == JNum(<<"1">>)
Ex == JStr(<<"x">>)

Scalars == {JNull, One, Ex, JBool(<<"t", "r", "u", "e">>)}

Arrays == {JArr(<< >>), JArr(<<One, Ex>>), JArr(<<JObj(<<F(KeyA, JNull)>>)>>)}

Objects ==
    { JObj(<< >>), JObj(<<F(KeyA, One)>>), JObj(<<F(KeyB, JArr(<<One>>))>>),
      JObj(<<F(KeyA, JObj(<<F(KeyB, One)>>))>>), JObj(<<F(KeyAB, Ex)>>) }

Values == Scalars \cup Arrays \cup Objects

\* the sequences of at most n fields with distinct keys
RECURSIVE FieldSeqs(_, _, _)
FieldSeqs(n, keys, values) ==
    IF n = 0 THEN {<< >>}
    ELSE LET shorter == FieldSeqs(n - 1, keys, values)
         IN  shorter \cup
             UNION { {Append(fs, F(k, v)) : k \in keys \ KeysOf(fs), v \in values} :
                       fs \in {p \in shorter : Len(p) = n - 1} }

\* the values of at most n fields
FlattenInputs(n) ==
    {JObj(fs) : fs \in FieldSeqs(n, Keys, Values)} \cup Scalars \cup Arrays

\* key.split(".")
RECURSIVE SplitFrom(_, _, _)
SplitFrom(k, i, cur) ==
    IF i > Len(k) THEN <<cur>>
    ELSE IF k[i] = "." THEN <<cur>> \o SplitFrom(k, i + 1, << >>)
    ELSE SplitFrom(k, i + 1, Append(cur, k[i]))

Split(k) == SplitFrom(k, 1, << >>)

\* obj[path[1]]...[path[n]] = v, creating the objects on the way
RECURSIVE SetPath(_, _, _)
SetPath(obj, path, v) ==
    LET k == Head(path)
    IN  IF Len(path) = 1 THEN JObj(Put(obj.kids, k, v))
        ELSE LET child == IF HasKey(obj.kids, k) /\ Lookup(obj.kids, k).t = "object"
                          THEN Lookup(obj.kids, k) ELSE JObj(<< >>)
             IN  JObj(Put(obj.kids, k, SetPath(child, Tail(path), v)))

\* re-nesting of a flat record by path split
RECURSIVE RenestFrom(_, _, _)
RenestFrom(flat, i, acc) ==
    IF i > Len(flat) THEN acc
    ELSE RenestFrom(flat, i + 1, SetPath(acc, Split(flat[i].k), flat[i].v))

Renest(flat) == RenestFrom(flat, 1, JObj(<< >>))

ApplyFlatten ==
    /\ "flatten" \notin output.applied
    /\ output' = [output EXCEPT !.applied = @ \cup {"flatten"},
                                !.flat = flattenObject(input, << >>)]
    /\ UNCHANGED << syncVars, input >>

ApplyRenest ==
    /\ "flatten" \in output.applied
    /\ "renest" \notin output.applied
    /\ output' = [output EXCEPT !.applied = @ \cup {"renest"},
                                !.nested = Renest(output.flat)]
    /\ UNCHANGED << syncVars, input >>

InitFlatten ==
    /\ Quiescent({DefaultConfig}, {})
    /\ input \in FlattenInputs(MaxFields)
    /\ output = NoOutput

NextFlatten == ApplyFlatten \/ ApplyRenest

SpecFlatten == InitFlatten /\ [][NextFlatten]_vars

(***************************************************************************)
(* The field tree of fieldDiscoveryService.ts on the same bounded inputs.  *)
(* A FieldNode is [name, path, children]; the type of a node, which no     *)
(* path depends on, is left out, and a node without children has the       *)
(* empty sequence of children.                                             *)
(***************************************************************************)
\* const path = prefix ? `${prefix}.${key}` : key
fieldPath(prefix, key) == IF prefix # << >> THEN prefix \o <<".">> \o key ELSE key

RECURSIVE buildFieldTree(_, _)
RECURSIVE buildFields(_, _, _)
buildFieldTree(obj, prefix) ==
    IF ~IsObjectLike(obj) THEN << >>
    ELSE buildFields(obj.kids, 1, prefix)

\* the for loop over Object.entries(obj), from entry i on
buildFields(entries, i, prefix) ==
    IF i > Len(entries) THEN << >>
    ELSE LET key == entries[i].k
             value == entries[i].v
             path == fieldPath(prefix, key)
             children ==
                 IF value.t = "object" THEN buildFieldTree(value, path)
                 ELSE IF value.t = "array" /\ Len(value.kids) > 0
                         /\ IsObjectLike(value.kids[1].v)
                 THEN buildFieldTree(value.kids[1].v, path)
                 ELSE << >>
         IN  <<[name |-> key, path |-> path, children |-> children]>>
                 \o buildFields(entries, i + 1, prefix)

\* traverse(nodes) of getAllPaths: the paths of the nodes without children
RECURSIVE getAllPaths(_)
getAllPaths(fields) ==
    IF fields = << >> THEN << >>
    ELSE LET node == Head(fields)
         IN  (IF Len(node.children) > 0 THEN getAllPaths(node.children)
              ELSE <<node.path>>) \o getAllPaths(Tail(fields))

ApplyBuildFieldTree ==
    /\ "tree" \notin output.applied
    /\ output' = [output EXCEPT !.applied = @ \cup {"tree"},
                                !.tree = buildFieldTree(input, << >>)]
    /\ UNCHANGED << syncVars, input >>

ApplyGetAllPaths ==
    /\ "tree" \in output.applied
    /\ "paths" \notin output.applied
    /\ output' = [output EXCEPT !.applied = @ \cup {"paths"},
                                !.paths = getAllPaths(output.tree)]
    /\ UNCHANGED << syncVars, input >>

InitTree ==
    /\ Quiescent({DefaultConfig}, {})
    /\ input \in FlattenInputs(MaxFields)
    /\ output = NoOutput

NextTree == ApplyBuildFieldTree \/ ApplyGetAllPaths

SpecTree == InitTree /\ [][NextTree]_vars

(***************************************************************************)
(* The financial series detector and normalizer on bounded inputs: objects *)
(* of at most MaxEntries entries whose keys are dates of several formats,  *)
(* a timestamp, a date that does not exist and a word, and whose values    *)
(* are objects with and without financial fields, or no objects at all.    *)
(* Object.entries lists an integer key before the other keys.              *)
(***************************************************************************)
KeyIso == <<"2", "0", "2", "4", "-", "1", "2", "-", "2", "6">>
KeyUs == <<"1", "2", "/", "2", "7", "/", "2", "0", "2", "3">>
KeyUnix == <<"1", "7", "0", "0", "0", "0", "0", "0", "0", "0">>
KeyNoDate == <<"2", "0", "2", "5", "-", "1", "3", "-", "0", "1">>
KeyWord == <<"x">>

SeriesKeys == {KeyIso, KeyUs, KeyUnix, KeyNoDate, KeyWord}

Ten == JStr(<<"1", "0">>)

\* two keys, several keywords
Quote1 == JObj(<<F(<<"1", ".", " ", "o", "p", "e", "n">>, Ten), F(<<"4", ".", " ", "c", "l", "o", "s", "e">>, Ten)>>)
\* no keyword, two numeric fields
Quote2 == JObj(<<F(KeyA, One), F(KeyB, Ten)>>)
\* two keys containing the same keyword, no numeric field
Quote3 == JObj(<<F(<<"o", "p", "e", "n">>, Ex), F(<<"O", "p", "e", "n">>, Ex)>>)
\* one key containing two keywords, no numeric field
Quote4 == JObj(<<F(<<"1", ".", " ", "o", "p", "e", "n">>, Ex)>>)
\* a field named as the date key
Quote5 == JObj(<<F(DefaultDateKey, JStr(<<"2", "0", "2", "4", "-", "0", "1", "-", "0", "1">>)), F(KeyA, One), F(KeyB, One)>>)
\* no financial field
Quote6 == JObj(<<F(KeyA, Ex)>>)

SeriesValues == {Quote1, Quote2, Quote3, Quote4, Quote5, Quote6, One, JArr(<< >>)}

\* the order of Object.entries: integer keys first
EntriesOrder(fs) ==
    \A i, j \in DOMAIN fs : (i < j /\ AllDigits(fs[j].k)) => AllDigits(fs[i].k)

\* the values of at most n entries
SeriesInputs(n) ==
    {JObj(fs) : fs \in {p \in FieldSeqs(n, SeriesKeys, SeriesValues) : EntriesOrder(p)}}
        \cup Scalars \cup Arrays

ApplyIsFinancialTimeSeries ==
    /\ "detect" \notin output.applied
    /\ output' = [output EXCEPT !.applied = @ \cup {"detect"},
                                !.series = isFinancialTimeSeries(input)]
    /\ UNCHANGED << syncVars, input >>

\* fetchWidgetData normalizes the value that the detector accepted
ApplyNormalize ==
    /\ "detect" \in output.applied
    /\ output.series
    /\ "normalize" \notin output.applied
    /\ output' = [output EXCEPT !.applied = @ \cup {"normalize"},
                                !.records = normalizeFinancialTimeSeries(input, DefaultDateKey)]
    /\ UNCHANGED << syncVars, input >>

InitSeries ==
    /\ Quiescent({DefaultConfig}, {})
    /\ input \in SeriesInputs(MaxEntries)
    /\ output = NoOutput

NextSeries == ApplyIsFinancialTimeSeries \/ ApplyNormalize

SpecSeries == InitSeries /\ [][NextSeries]_vars

(***************************************************************************)
(* The data pipeline of a response body (fetchWidgetData) and of a socket  *)
(* payload (handleSocketMessage): the optional normalizer at               *)
(* config.financialDataPath, then the flattener, per element of an array   *)
(* or once.  The bodies are series, bare and wrapped in objects and in an  *)
(* array, and values that are no series; the paths have at most MaxParts   *)
(* parts.                                                                  *)
(***************************************************************************)
\* parts of a financialDataPath
MaxParts == 2

JUndefined == [t |-> "undefined", s |-> << >>, kids |-> << >>]

\* config.financialDataPath is undefined or ""
NoPath == << >>

\* the loop of getNestedValue over parts, from part i on
RECURSIVE getNestedFrom(_, _, _)
getNestedFrom(current, parts, i) ==
    IF i > Len(parts) THEN current
    ELSE IF IsObjectLike(current) /\ HasKey(current.kids, parts[i])
    THEN getNestedFrom(Lookup(current.kids, parts[i]), parts, i + 1)
    ELSE JUndefined

getNestedValue(obj, path) == getNestedFrom(obj, Split(path), 1)

\* records of dataToProcess: one per element of an array, else one
Flattened(dataToProcess) ==
    IF dataToProcess.t = "array"
    THEN [i \in DOMAIN dataToProcess.kids |->
             flattenObject(dataToProcess.kids[i].v, << >>)]
    ELSE <<flattenObject(dataToProcess, << >>)>>

FlattenedSeries(financialData) ==
    LET normalized == normalizeFinancialTimeSeries(financialData, DefaultDateKey)
    IN  [i \in DOMAIN normalized |-> flattenObject(JObj(normalized[i]), << >>)]

\* Array.isArray(dataToProcess) ? dataToProcess.length : 1
Length(dataToProcess) ==
    IF dataToProcess.t = "array" THEN Len(dataToProcess.kids) ELSE 1

\* a pipeline that counts the fields of a body that is no array
processData_CountFields(rawData, financialDataPath) ==
    LET normalize == /\ financialDataPath # NoPath
                     /\ isFinancialTimeSeries(getNestedValue(rawData, financialDataPath))
        records == IF normalize
                   THEN FlattenedSeries(getNestedValue(rawData, financialDataPath))
                   ELSE Flattened(rawData)
    IN  [success |-> TRUE, normalized |-> normalize, records |-> records,
         totalCount |-> IF normalize THEN Len(records) ELSE Len(rawData.kids)]

\* a pipeline that normalizes a body that is a series when no path is set
processData_AutoDetect(rawData, financialDataPath) ==
    LET financialData == IF financialDataPath # NoPath
                         THEN getNestedValue(rawData, financialDataPath)
                         ELSE rawData
        normalize == isFinancialTimeSeries(financialData)
        records == IF normalize THEN FlattenedSeries(financialData)
                   ELSE Flattened(rawData)
    IN  [success |-> TRUE, normalized |-> normalize, records |-> records,
         totalCount |-> IF normalize THEN Len(financialData.kids)
                        ELSE Length(rawData)]

\* rawData to WidgetData
processData(rawData, financialDataPath) ==
    LET normalize == /\ financialDataPath # NoPath
                     /\ isFinancialTimeSeries(getNestedValue(rawData, financialDataPath))
        records == IF normalize
                   THEN FlattenedSeries(getNestedValue(rawData, financialDataPath))
                   ELSE Flattened(rawData)
    IN  [success |-> TRUE, normalized |-> normalize, records |-> records,
         totalCount |-> IF normalize
                        THEN Len(normalizeFinancialTimeSeries(
                                    getNestedValue(rawData, financialDataPath),
                                    DefaultDateKey))
                        ELSE Length(rawData)]

PathParts == {KeyA, KeyB}

\* the paths of at most n parts, joined by "."
RECURSIVE Paths(_)
Paths(n) ==
    IF n = 0 THEN {NoPath}
    ELSE Paths(n - 1) \cup
         {IF p = NoPath THEN k ELSE p \o <<".">> \o k : p \in Paths(n - 1), k \in PathParts}

Series1 == JObj(<<F(KeyUs, Quote1), F(KeyIso, Quote1)>>)
Series2 == JObj(<<F(KeyUnix, Quote2), F(KeyIso, Quote5)>>)
\* one entry; a key that is no date
NotSeries1 == JObj(<<F(KeyIso, Quote1)>>)
NotSeries2 == JObj(<<F(KeyIso, Quote1), F(KeyWord, Quote1)>>)

Payloads == {Series1, Series2, NotSeries1, NotSeries2}

\* a payload at the paths of at most n parts, under a key with a dot and in
\* an array
RECURSIVE Wrapped(_, _)
Wrapped(n, payloads) ==
    IF n = 0 THEN payloads
    ELSE LET inner == Wrapped(n - 1, payloads)
         IN  inner \cup {JObj(<<F(k, v)>>) : k \in PathParts, v \in inner}

Bodies(n) ==
    Wrapped(n, Payloads) \cup {JArr(<<v>>) : v \in Payloads}
        \cup {JObj(<<F(KeyAB, v)>>) : v \in Payloads} \cup Scalars \cup Arrays

ApplyProcessData ==
    /\ "process" \notin output.applied
    /\ output' = [output EXCEPT
                     !.applied = @ \cup {"process"},
                     !.batch = processData(input.rawData, input.financialDataPath)]
    /\ UNCHANGED << syncVars, input >>

InitPipeline ==
    /\ Quiescent({DefaultConfig}, {})
    /\ input \in [rawData : Bodies(MaxParts), financialDataPath : Paths(MaxParts)]
    /\ output = NoOutput

NextPipeline == ApplyProcessData

SpecPipeline == InitPipeline /\ [][NextPipeline]_vars

(***************************************************************************)
(* The request headers on bounded inputs: every kind of credential and     *)
(* caller headers of at most MaxFields entries, some of which name the     *)
(* header of the credential.                                               *)
(***************************************************************************)
Tok == JStr(<<"t">>)

Credentials ==
    { << >>,
      <<F(Str_type, JStr(Str_none))>>,
      <<F(Str_type, JStr(Str_bearer)), F(Str_token, Tok)>>,
      <<F(Str_type, JStr(Str_apiKey)), F(Str_headerName, JStr(<<"X", "-", "A", "p", "i", "-", "K", "e", "y">>)),
        F(Str_apiKeyValue, Tok)>> }
    \cup { <<F(Str_type, JStr(Str_basic)), F(Str_username, JStr(u)), F(Str_password, JStr(pw))>> :
              u \in {<<"a">>, <<"a", "b">>, <<"a", "b", "c">>}, pw \in {<< >>, <<"b">>} }

HeaderNames ==
    { <<"A", "c", "c", "e", "p", "t">>, Authorization, <<"a", "u", "t", "h", "o", "r", "i", "z", "a", "t", "i", "o", "n">>,
      <<"X", "-", "A", "p", "i", "-", "K", "e", "y">>, <<"C", "o", "n", "t", "e", "n", "t", "-", "T", "y", "p", "e">> }

\* the configs with at most n caller headers
RequestConfigs(n) ==
    { JObj((IF auth = << >> THEN << >> ELSE <<F(Str_authentication, JObj(auth))>>)
             \o <<F(Str_headers, JObj(hs))>>) :
        auth \in Credentials, hs \in FieldSeqs(n, HeaderNames, {Ex}) }

\* the headers of the fetch call of an admitted request
BuildRequest ==
    /\ "request" \notin output.applied
    /\ output' = [output EXCEPT !.applied = @ \cup {"request"},
                                !.headers = RequestHeaders(input)]
    /\ UNCHANGED << syncVars, input >>

InitHeaders ==
    /\ Quiescent({DefaultConfig}, {})
    /\ input \in RequestConfigs(MaxFields)
    /\ output = NoOutput

NextHeaders == BuildRequest

SpecHeaders == InitHeaders /\ [][NextHeaders]_vars

TypeOK ==
    /\ \A id \in Ids :
        /\ lastRequestTime[id] \in {Absent} \cup 0..MIN_REQUEST_INTERVAL
        /\ TotalPending(pending[id]) <= MaxInflight
        /\ pollingIntervals[id] \in BOOLEAN
        /\ Len(sockets[id]) <= MaxSockets

(***************************************************************************)
(* Properties.                                                             *)
(***************************************************************************)
LiveCount(id) == Cardinality(LiveSockets(sockets[id]))

Registered(id) == {i \in DOMAIN sockets[id] : sockets[id][i].registered}

\* C1: after two startDataUpdates calls for an id with no stopDataUpdates in
\* between, the id has at most one polling timer and at most one
\* connecting-or-open socket connection (so one callback per network event).
C1_OneTransportAfterDoubleStart ==
    \A id \in Ids :
        startsSinceStop[id] = 2 =>
            /\ Len(intervalTimers[id]) <= 1
            /\ LiveCount(id) <= 1

\* C2: between stopDataUpdates(id) and the next startDataUpdates(id) neither
\* onUpdate nor onError is invoked for id.
C2_NoCallbackAfterStop ==
    \A k \in DOMAIN callbacks : ~callbacks[k].afterStop

\* C3: when stopDataUpdates(id) ran while the initial fetch of
\* startDataUpdates(id) was pending, or inside the onUpdate that delivers it,
\* no polling timer and no socket connection is registered for id until the
\* next startDataUpdates(id).
C3_NoTransportAfterEarlyStop ==
    \A id \in Ids :
        stoppedInitial[id] =>
            /\ ~pollingIntervals[id]
            /\ intervalTimers[id] = << >>
            /\ Registered(id) = {}

\* C4: after MAX_RECONNECT_ATTEMPTS consecutive abnormal closes of a raw
\* WebSocket source with no open in between, no reconnection is scheduled and
\* no connection exists for that id.
C4_NoReconnectAfterCeiling ==
    \A id \in Ids :
        consecAbnormal[id] >= MAX_RECONNECT_ATTEMPTS =>
            /\ reconnectTimers[id] = << >>
            /\ LiveCount(id) = 0

\* C5: when reconnection is exhausted for an id the terminal onError has been
\* delivered exactly once, the socket entry is discarded and polling runs iff
\* refreshInterval > 0; the socket manager starts polling in no other state.
C5_ExhaustionFallsBackOnce ==
    \A id \in Ids :
        /\ consecAbnormal[id] >= MAX_RECONNECT_ATTEMPTS =>
            /\ terminalCount[id] = 1
            /\ Registered(id) = {}
            /\ pollingIntervals[id] <=> config[id].refreshInterval > 0
        /\ (config[id].socketUrl # NoUrl /\ pollingIntervals[id]) =>
            consecAbnormal[id] >= MAX_RECONNECT_ATTEMPTS

SomeOpen(id) == \E i \in DOMAIN sockets[id] : sockets[id][i].readyState = "OPEN"

\* C6: a source with socketUrl and refreshInterval > 0 that has a connection,
\* whose connections never open and always close abnormally and which is not
\* stopped, eventually gets the terminal onError and an active polling timer.
C6_FallbackEventually ==
    (sockets["w1"] # << >> /\ config["w1"].refreshInterval > 0)
        ~> (\/ SomeOpen("w1")
            \/ (terminalCount["w1"] > 0 /\ pollingIntervals["w1"]))

\* C7: when stop ran for an id while a raw-WebSocket reconnection timer of
\* the id was pending, no connection is created for the id afterwards (until
\* the next start); and stop with nothing registered changes nothing.
C7_StopCancelsReconnect ==
    [][\A id \in Ids :
          /\ (stoppedTimer[id] /\ stoppedTimer'[id])
                 => Len(sockets'[id]) <= Len(sockets[id])
          /\ (~pollingIntervals[id] /\ Registered(id) = {})
                 => stopDataUpdates(St(id), config[id])
                        = [St(id) EXCEPT !.stopped = TRUE]
      ]_vars

FetchCalled(id) == TotalPending(pending'[id]) = TotalPending(pending[id]) + 1

WithinWindow(id) == admitAge[id] # Absent /\ admitAge[id] < MIN_REQUEST_INTERVAL

\* C8: a fetchWidgetData call for an id less than MIN_REQUEST_INTERVAL after
\* the last admitted call for that id returns the rate-limit failure and
\* issues no request; whether a call is admitted depends on that id alone,
\* and a call leaves the other ids' requests and timestamps untouched.
C8_RateLimitPerId ==
    [][\A id \in Ids :
          FetchCalled(id) =>
              /\ WithinWindow(id) =>
                    /\ NetInflight(pending'[id]) = NetInflight(pending[id])
                    /\ Microtasks(pending'[id]) = Microtasks(pending[id]) + 1
              /\ ~WithinWindow(id) =>
                    NetInflight(pending'[id]) = NetInflight(pending[id]) + 1
              /\ \A other \in Ids \ {id} :
                    /\ pending'[other] = pending[other]
                    /\ lastRequestTime'[other] = lastRequestTime[other]
      ]_vars

\* w1 was admitted, then w2 was admitted TimeStep later and w1 rejected
C8_Witness ==
    /\ pending["w1"][<<"user", "rl">>] > 0
    /\ pending["w1"][<<"user", "net">>] > 0
    /\ admitAge["w1"] = TimeStep
    /\ pending["w2"][<<"user", "net">>] > 0
    /\ admitAge["w2"] = 0

\* C9: the polling scheduler never has two HTTP requests of one id in flight.
C9_NoOverlappingPolls ==
    \A id \in Ids : pending[id][<<"poll", "net">>] <= 1

\* C10: for a source with refreshInterval > 0 and no socketUrl, a start issues
\* exactly one fetch, every interval tick issues one fetch attempt, and after
\* stopDataUpdates(id) no callback fires for id.
C10_PollingUntilStop ==
    [][\A id \in Ids :
          (config[id].socketUrl = NoUrl /\ config[id].refreshInterval > 0) =>
              /\ startsSinceStop'[id] > startsSinceStop[id] => FetchCalled(id)
              /\ (\E i \in DOMAIN intervalTimers[id] :
                      /\ i \in DOMAIN intervalTimers'[id]
                      /\ intervalTimers[id][i] = 0
                      /\ intervalTimers'[id][i] = config[id].refreshInterval)
                     => FetchCalled(id)
              /\ \A k \in DOMAIN callbacks' :
                     callbacks'[k].id = id => ~callbacks'[k].afterStop
      ]_vars

(***************************************************************************)
(* Transport choice of the facade.                                         *)
(***************************************************************************)
Both(id) == config[id].socketUrl # NoUrl /\ config[id].refreshInterval > 0

\* the step runs the continuation of a successful initial fetch of id
InitialFetchSucceeds(id) ==
    /\ pending'[id][<<"start", "net">>] < pending[id][<<"start", "net">>]
    /\ \E k \in DOMAIN callbacks' :
           callbacks'[k].fn = "onUpdate" /\ callbacks'[k].arg = "data"

\* the step registers a polling timer for id
PollingRegistered(id) ==
    \/ Len(intervalTimers'[id]) > Len(intervalTimers[id])
    \/ pollingIntervals'[id] /\ ~pollingIntervals[id]

\* the step delivers the terminal error of reconnection exhaustion
ExhaustionReported ==
    \E k \in DOMAIN callbacks' : callbacks'[k].arg = "maxReconnect"

\* C11: for a config with both a socketUrl and a positive refreshInterval,
\* the continuation of the successful initial fetch starts the socket
\* transport (or finds it connected) and registers no polling timer; a
\* polling timer is registered for that id only by the step that reports
\* reconnection exhaustion.
C11_SocketTakesPrecedence ==
    [][\A id \in Ids :
          Both(id) =>
              /\ InitialFetchSucceeds(id) =>
                    /\ ~PollingRegistered(id)
                    /\ \/ Len(sockets'[id]) > Len(sockets[id])
                       \/ isSocketConnected(St(id))
              /\ PollingRegistered(id) => ExhaustionReported
      ]_vars

\* the initial fetch of a source with both settings has just succeeded: a
\* registered connecting WebSocket and no polling timer
C11_Witness ==
    /\ Both("w1")
    /\ Len(callbacks) = 1 /\ callbacks[1].arg = "data"
    /\ \E i \in Registered("w1") : sockets["w1"][i].readyState = "CONNECTING"
    /\ ~pollingIntervals["w1"] /\ intervalTimers["w1"] = << >>

(***************************************************************************)
(* Initial fetch and error delivery.                                       *)
(***************************************************************************)
StartPending(p) == p[<<"start", "net">>] + p[<<"start", "rl">>]

\* the step is a call of startDataUpdates(id)
StartCalled(id) == StartPending(pending'[id]) > StartPending(pending[id])

\* the step runs the continuation of the initial fetch of id
StartResolved(id) == StartPending(pending'[id]) < StartPending(pending[id])

\* the step creates a socket connection or registers a polling timer for id
TransportStarted(id) ==
    PollingRegistered(id) \/ Len(sockets'[id]) > Len(sockets[id])

\* C12: startDataUpdates starts no transport when it is called; the
\* continuation of its initial fetch delivers onUpdate before it starts a
\* transport when the fetch succeeded, and when the fetch failed it delivers
\* onError once and starts no transport.
C12_TransportAfterInitialFetch ==
    [][\A id \in Ids :
          /\ StartCalled(id) => ~TransportStarted(id)
          /\ StartResolved(id) =>
                IF outcome' = "ok"
                THEN /\ Len(callbacks') >= 1
                     /\ callbacks'[1].fn = "onUpdate"
                ELSE /\ Len(callbacks') = 1
                     /\ callbacks'[1].fn = "onError"
                     /\ ~TransportStarted(id)
      ]_vars

\* C15: the continuation of a failed fetchWidgetData call of the engine
\* (rate-limited, non-2xx, timed out, network error with any message)
\* invokes onError exactly once and onUpdate never.
C15_FailedFetchReportsOnce ==
    outcome \notin {"none", "ok"} =>
        /\ Len(callbacks) = 1
        /\ callbacks[1].fn = "onError"

\* C13: after stopAllDataUpdates() and until the next start, no source has a
\* polling timer, a registered or live socket connection or a pending
\* reconnection timer.
C13_StopAllTearsDown ==
    (\A id \in Ids : stopped[id]) =>
        \A id \in Ids :
            /\ ~pollingIntervals[id]
            /\ intervalTimers[id] = << >>
            /\ Registered(id) = {}
            /\ LiveCount(id) = 0
            /\ reconnectTimers[id] = << >>

\* C14: a step of ApiService.test (the call or the completion of its
\* request, whatever the outcome) leaves the polling registry and its timers,
\* the socket registry with every reconnect counter and reconnection timer,
\* and every last-request timestamp unchanged, and the rate limiter never
\* rejects it.
C14_TestHasNoSideEffects ==
    [][tests' # tests =>
          /\ pollingIntervals' = pollingIntervals
          /\ intervalTimers' = intervalTimers
          /\ sockets' = sockets
          /\ reconnectTimers' = reconnectTimers
          /\ lastRequestTime' = lastRequestTime
          /\ pending' = pending
          /\ tests'.last \in {"Invalid URL format", "requested"} \cup TestOutcomes
      ]_vars

\* a probe is in flight, issued inside the rate-limit window of a source
\* whose transport is running
C14_Witness ==
    /\ tests.inflight > 0 /\ tests.last = "requested"
    /\ RateLimited(lastRequestTime["w1"])
    /\ pollingIntervals["w1"] \/ Registered("w1") # {}

(***************************************************************************)
(* Record flattener.                                                       *)
(***************************************************************************)
ScalarTypes == {"string", "number", "boolean", "null"}

\* no other field of d has a key that extends, or is extended by, the key
\* of field i
NoClash(d, i) ==
    \A j \in DOMAIN d.kids \ {i} :
        /\ ~startsWith(d.kids[i].k, d.kids[j].k)
        /\ ~startsWith(d.kids[j].k, d.kids[i].k)

\* C16: every value of flattenObject(d) is a string, number, boolean or
\* null; an input that is not a JSON object yields the empty map; a field
\* holding an array is stored as the JSON string of the array, and the
\* scalar fields of a nested object are stored under "field.child".
C16_FlatValuesAreScalars ==
    "flatten" \in output.applied =>
        /\ \A i \in DOMAIN output.flat : output.flat[i].v.t \in ScalarTypes
        /\ input.t # "object" => output.flat = << >>
        /\ input.t = "object" =>
              \A i \in DOMAIN input.kids :
                  LET f == input.kids[i]
                  IN  (NoClash(input, i) /\ f.k # << >>) =>
                        /\ f.v.t = "array" =>
                              /\ HasKey(output.flat, f.k)
                              /\ Lookup(output.flat, f.k) = JStr(JSON_stringify(f.v))
                        /\ f.v.t = "object" =>
                              \A c \in DOMAIN f.v.kids :
                                  f.v.kids[c].v.t \in ScalarTypes \ {"null"} =>
                                      LET path == f.k \o <<".">> \o f.v.kids[c].k
                                      IN  /\ HasKey(output.flat, path)
                                          /\ Lookup(output.flat, path) = f.v.kids[c].v

\* d with every array-valued field replaced by its JSON string
RECURSIVE ArraysAsStrings(_)
ArraysAsStrings(d) ==
    IF d.t = "array" THEN JStr(JSON_stringify(d))
    ELSE IF d.t = "object"
    THEN JObj([i \in DOMAIN d.kids |-> F(d.kids[i].k, ArraysAsStrings(d.kids[i].v))])
    ELSE d

\* the same JSON value up to the order of the fields of objects
RECURSIVE Iso(_, _)
Iso(x, y) ==
    /\ x.t = y.t
    /\ x.s = y.s
    /\ x.t = "object" =>
          /\ KeysOf(x.kids) = KeysOf(y.kids)
          /\ \A k \in KeysOf(x.kids) : Iso(Lookup(x.kids, k), Lookup(y.kids, k))

\* C17 as stated: for every JSON object d, re-nesting flattenObject(d) by
\* splitting each key on "." gives d with its array-valued fields replaced
\* by their JSON strings.
C17_RoundTrip ==
    ("renest" \in output.applied /\ input.t = "object") =>
        Iso(output.nested, ArraysAsStrings(input))

\* no key of d (outside arrays) is empty or contains ".", and no object
\* nested in d is empty
RECURSIVE Plain(_)
Plain(d) ==
    d.t = "object" =>
        \A i \in DOMAIN d.kids :
            /\ d.kids[i].k # << >>
            /\ \A c \in DOMAIN d.kids[i].k : d.kids[i].k[c] # "."
            /\ d.kids[i].v.t = "object" => d.kids[i].v.kids # << >>
            /\ Plain(d.kids[i].v)

\* C17 amended: the round trip holds for every JSON object d in which no
\* key is empty or contains "." and no nested object is empty.
C17_RoundTripOfPlainObjects ==
    ("renest" \in output.applied /\ input.t = "object" /\ Plain(input)) =>
        Iso(output.nested, ArraysAsStrings(input))

\* a plain object with an array field and a twice-nested object was
\* flattened to dotted keys and re-nested
C17_Witness ==
    /\ "renest" \in output.applied
    /\ input = JObj(<<F(KeyB, JArr(<<One, Ex>>)),
                      F(KeyA, JObj(<<F(KeyA, JObj(<<F(KeyB, One)>>))>>))>>)
    /\ KeysOf(output.flat) = {KeyB, <<"a", ".", "a", ".", "b">>}
    /\ Lookup(output.flat, KeyB) = JStr(<<"[", "1", ",", Quote[1], "x", Quote[1], "]">>)

(***************************************************************************)
(* C18: isFinancialTimeSeries returns true for every object with at least  *)
(* 2 entries whose keys are all date-like and whose values are all         *)
(* non-array objects with at least 2 keys containing a financial keyword   *)
(* or at least 2 numeric fields, and false for every non-object, array,    *)
(* object with fewer than 2 entries, object with a key that is not         *)
(* date-like and object with a value that is not a non-array object.       *)
(***************************************************************************)
KeywordKeys(obj) ==
    {key \in KeysOf(obj.kids) :
        \E i \in DOMAIN financialKeywords : includes(toLowerCase(key), financialKeywords[i])}

NumericFields(obj) == {k \in KeysOf(obj.kids) : IsNumeric(Lookup(obj.kids, k))}

Candidate(v) ==
    /\ v.t = "object"
    /\ Len(v.kids) >= 2
    /\ \A i \in DOMAIN v.kids : isDateKey(v.kids[i].k)
    /\ \A i \in DOMAIN v.kids :
          /\ v.kids[i].v.t = "object"
          /\ \/ Cardinality(KeywordKeys(v.kids[i].v)) >= 2
             \/ Cardinality(NumericFields(v.kids[i].v)) >= 2

Rejected(v) ==
    \/ v.t # "object"
    \/ Len(v.kids) < 2
    \/ \E i \in DOMAIN v.kids : ~isDateKey(v.kids[i].k)
    \/ \E i \in DOMAIN v.kids : v.kids[i].v.t # "object"

C18_DetectsFinancialSeries ==
    "detect" \in output.applied =>
        /\ Candidate(input) => output.series
        /\ Rejected(input) => ~output.series

(***************************************************************************)
(* C19: for every series accepted by isFinancialTimeSeries, every adjacent *)
(* pair (a, b) of normalizeFinancialTimeSeries(series) satisfies           *)
(* compare(a, b) <= 0 under the three-tier comparison: difference of the   *)
(* parsed dates if both parse, else difference of the integer timestamps   *)
(* if both parse as integers, else lexicographic order.                    *)
(***************************************************************************)
C19_NormalizedSeriesIsSorted ==
    "normalize" \in output.applied =>
        /\ Len(output.records) = Len(input.kids)
        /\ \A i \in 1..(Len(output.records) - 1) :
              compare(output.records[i], output.records[i + 1], DefaultDateKey) <= 0

\* a series mixing an ISO date, a US date and a timestamp that entered out of order
C19_Witness ==
    /\ "normalize" \in output.applied
    /\ KeysOf(input.kids) = {KeyIso, KeyUs, KeyUnix}
    /\ DateField(output.records[1], DefaultDateKey) # JStr(input.kids[1].k)
(***************************************************************************)
(* C20: the outgoing headers of every admitted HTTP request carry the      *)
(* credential exactly as configured, for every value of config.headers:    *)
(* bearer gives Authorization = "Bearer " + token, api-key gives           *)
(* headerName = key, basic gives Authorization = "Basic " +                *)
(* base64(username:password), and none adds no auth header.                *)
(***************************************************************************)
Sent(name) ==
    IF HasKey(output.headers, toLowerCase(name))
    THEN Lookup(output.headers, toLowerCase(name))
    ELSE << >>

Credential(auth) ==
    LET type == Lookup(auth, Str_type).s
    IN  IF type = Str_bearer
        THEN F(Authorization, <<"B", "e", "a", "r", "e", "r", " ">> \o Lookup(auth, Str_token).s)
        ELSE IF type = Str_apiKey
        THEN F(Lookup(auth, Str_headerName).s, Lookup(auth, Str_apiKeyValue).s)
        ELSE F(Authorization, <<"B", "a", "s", "i", "c", " ">> \o btoa(Lookup(auth, Str_username).s
                                    \o <<":">> \o Lookup(auth, Str_password).s))

HasCredential(auth) == auth # << >> /\ Lookup(auth, Str_type).s # Str_none

C20_CredentialAsConfigured ==
    "request" \in output.applied =>
        IF HasCredential(AuthOf(input))
        THEN Sent(Credential(AuthOf(input)).k) = Credential(AuthOf(input)).v
        ELSE output.headers = HeaderList(Assign(DEFAULT_HEADERS, HeadersOf(input)), << >>)
(***************************************************************************)
(* C21: a fetchWidgetData call that the rate limiter rejects leaves the    *)
(* last-request timestamp of the id unchanged, so a call is admitted as    *)
(* soon as MIN_REQUEST_INTERVAL has passed since the last admitted call,   *)
(* however many calls were rejected in between; an admitted call sets the  *)
(* timestamp, and the later outcome of its request does not change it.     *)
(***************************************************************************)
CallRejected(id) == Microtasks(pending'[id]) = Microtasks(pending[id]) + 1

CallAdmitted(id) == NetInflight(pending'[id]) = NetInflight(pending[id]) + 1

\* the promise of an admitted request settles, with any result
Settles(id) == NetInflight(pending'[id]) = NetInflight(pending[id]) - 1

C21_RejectionKeepsTimestamp ==
    [][\A id \in Ids :
          /\ FetchCalled(id) =>
                /\ CallRejected(id) <=> WithinWindow(id)
                /\ CallRejected(id) => lastRequestTime'[id] = lastRequestTime[id]
                /\ CallAdmitted(id) => lastRequestTime'[id] = 0
          /\ Settles(id) => lastRequestTime'[id] = lastRequestTime[id]
      ]_vars

\* a call was rejected TimeStep after the admitted one, whose request is
\* still in flight, and the timestamp is the one of the admitted call
C21_Witness ==
    /\ pending["w1"][<<"user", "rl">>] = 1
    /\ pending["w1"][<<"user", "net">>] = 1
    /\ lastRequestTime["w1"] = TimeStep
    /\ admitAge["w1"] = TimeStep
    /\ pending["w2"] = EmptyPending
(***************************************************************************)
(* C22: startPolling(id, ...) called while a polling timer is registered   *)
(* for id is a no-op: it issues no fetch, creates no second timer and      *)
(* leaves the registered timer, the config and the callbacks unchanged.    *)
(***************************************************************************)
TaskRan(op, id) == lastTask'.op = op /\ lastTask'.id = id

C22_StartPollingIsIdempotent ==
    [][\A id \in Ids :
          (pollingIntervals[id] /\ TaskRan("startPolling", id)) =>
              /\ pending' = pending
              /\ lastRequestTime' = lastRequestTime
              /\ intervalTimers' = intervalTimers
              /\ pollingIntervals' = pollingIntervals
              /\ config' = config
              /\ callbacks' = << >>
      ]_vars

\* startPolling ran for w1 while its timer, registered half a period
\* earlier, was the only one
C22_Witness ==
    /\ lastTask = [op |-> "startPolling", id |-> "w1"]
    /\ pollingIntervals["w1"]
    /\ intervalTimers["w1"] = <<TimeStep>>
(***************************************************************************)
(* C23: once a polling timer is registered for id, failed cycles (rate     *)
(* limit, HTTP error, timeout, parse error), in any number, leave the      *)
(* timer registered and ticking: only stopPolling, stopDataUpdates and     *)
(* stopAllDataUpdates remove it.                                           *)
(***************************************************************************)
StopTasks == {"stopPolling", "stopDataUpdates", "stopAllDataUpdates",
              "startContinuation, stopDataUpdates"}

\* the timers of id other than the one whose callback runs keep their time
\* and the one that ticked is armed again
TimersKeepRunning(id) ==
    /\ Len(intervalTimers'[id]) = Len(intervalTimers[id])
    /\ \A i \in DOMAIN intervalTimers[id] :
          \/ intervalTimers'[id][i] = intervalTimers[id][i]
          \/ (lastTask'.op = "intervalCallback" /\ intervalTimers[id][i] = 0
                /\ intervalTimers'[id][i] = config[id].refreshInterval)
          \/ (lastTask'.op = "advance"
                /\ intervalTimers'[id][i] = Max(0, intervalTimers[id][i] - TimeStep))

C23_FailedCyclesKeepTimer ==
    [][\A id \in Ids :
          (pollingIntervals[id] /\ ~(lastTask'.op \in StopTasks /\ lastTask'.id \in {id, "all"}))
              => (pollingIntervals'[id] /\ TimersKeepRunning(id))
      ]_vars

\* a cycle of w1 failed half a period after its tick; the timer runs on
C23_Witness ==
    /\ lastTask = [op |-> "pollContinuation", id |-> "w1"]
    /\ Len(callbacks) = 1 /\ callbacks[1].fn = "onError"
    /\ pollingIntervals["w1"]
    /\ intervalTimers["w1"] = <<TimeStep>>
(***************************************************************************)
(* C24: after stopPolling(id) the engine holds no polling state for id:    *)
(* the timer entry is removed and the last-request timestamp of the rate   *)
(* limiter is discarded, so that a start right after a stop is treated     *)
(* like a first start; stopPolling(id) for an id that is not polling       *)
(* changes nothing.                                                        *)
(***************************************************************************)
TimerEntryRemoved(id) == ~pollingIntervals'[id] /\ intervalTimers'[id] = << >>

NothingChanges(id) ==
    /\ pollingIntervals'[id] = pollingIntervals[id]
    /\ intervalTimers'[id] = intervalTimers[id]
    /\ lastRequestTime'[id] = lastRequestTime[id]
    /\ pending'[id] = pending[id]
    /\ sockets'[id] = sockets[id]

C24_StopPollingDiscardsState ==
    [][\A id \in Ids :
          TaskRan("stopPolling", id) =>
              IF pollingIntervals[id]
              THEN TimerEntryRemoved(id) /\ lastRequestTime'[id] = Absent
              ELSE NothingChanges(id)
      ]_vars
(***************************************************************************)
(* C25: for a raw WebSocket source, the reconnection scheduled after the   *)
(* k-th consecutive abnormal close (k = 0, 1, 2, ..., no open in between)  *)
(* has the delay RECONNECT_DELAY_BASE * 2^k, so that successive delays     *)
(* strictly increase.                                                      *)
(***************************************************************************)
\* onclose of a connection of id scheduled a reconnection
ReconnectScheduled(id) ==
    Len(reconnectTimers'[id]) = Len(reconnectTimers[id]) + 1

ScheduledDelay(id) == reconnectTimers'[id][Len(reconnectTimers'[id])].delay

C25_BackoffDoubles ==
    [][\A id \in Ids :
          (ReconnectScheduled(id) /\ consecAbnormal[id] < MAX_RECONNECT_ATTEMPTS) =>
              ScheduledDelay(id) = RECONNECT_DELAY_BASE * Pow2(consecAbnormal[id])
      ]_vars
(***************************************************************************)
(* C26: the reconnect-attempt counter of a raw WebSocket source is 0 right *)
(* after every open and is one more after every close that no stop caused: *)
(* after k consecutive such closes with no open in between, the counter of *)
(* the current state of the source is k.                                   *)
(***************************************************************************)
C26_CounterCountsCloses ==
    \A id \in Ids :
        \A i \in Registered(id) :
            sockets[id][i].type = "websocket" =>
                sockets[id][i].reconnectAttempts = consecAbnormal[id]
(***************************************************************************)
(* C27: the error event of a raw WebSocket, and a message whose payload    *)
(* cannot be parsed or processed, invoke onError once and change nothing   *)
(* else: the connection stays registered and open, its counter is          *)
(* unchanged, no reconnection is scheduled and no polling is started.      *)
(***************************************************************************)
OnlyCallback(fns) == Len(callbacks') = 1 /\ callbacks'[1].fn \in fns

TransportUnchanged(id) ==
    /\ sockets'[id] = sockets[id]
    /\ reconnectTimers'[id] = reconnectTimers[id]
    /\ pollingIntervals'[id] = pollingIntervals[id]
    /\ intervalTimers'[id] = intervalTimers[id]
    /\ pending'[id] = pending[id]
    /\ lastRequestTime'[id] = lastRequestTime[id]

C27_SocketErrorOnlyReports ==
    [][\A id \in Ids :
          /\ TaskRan("onerror", id) =>
                OnlyCallback({"onError"}) /\ TransportUnchanged(id)
          /\ TaskRan("onmessage", id) =>
                OnlyCallback({"onUpdate", "onError"}) /\ TransportUnchanged(id)
      ]_vars

\* a message of the open, registered connection of w1 could not be
\* processed: onError was invoked and the connection is as it was
C27_Witness ==
    /\ lastTask = [op |-> "onmessage", id |-> "w1"]
    /\ Len(callbacks) = 1 /\ callbacks[1].fn = "onError"
    /\ Len(sockets["w1"]) = 1
    /\ sockets["w1"][1].readyState = "OPEN" /\ sockets["w1"][1].registered
    /\ reconnectTimers["w1"] = << >>
    /\ ~pollingIntervals["w1"]
(***************************************************************************)
(* C30: every raw WebSocket connection of an id that is connecting or open *)
(* is the connection recorded in the registry entry of the id, so that a   *)
(* stop of the id closes every live connection of the id; the close event  *)
(* of an older connection never removes the registry entry of a newer one. *)
(***************************************************************************)
LiveWebSockets(id) ==
    {i \in DOMAIN sockets[id] : /\ sockets[id][i].type = "websocket"
                                /\ sockets[id][i].readyState \in {"CONNECTING", "OPEN"}}

C30_LiveConnectionIsRegistered ==
    \A id \in Ids : \A i \in LiveWebSockets(id) : sockets[id][i].registered
(***************************************************************************)
(* C29: a value object satisfies the keyword branch of hasFinancialFields  *)
(* only if at least 2 of its keys each contain, case-insensitively, a      *)
(* financial keyword: a series none of whose values has 2 such keys or 2   *)
(* numeric fields is not detected, and a value with a single key never     *)
(* satisfies the keyword branch.                                           *)
(***************************************************************************)
\* the shape tests of isFinancialTimeSeries pass for v
SeriesShaped(v) ==
    /\ v.t = "object"
    /\ Len(v.kids) >= 2
    /\ \A i \in DOMAIN v.kids : isDateKey(v.kids[i].k) /\ v.kids[i].v.t = "object"

C29_KeywordBranchNeedsTwoKeys ==
    ("detect" \in output.applied /\ SeriesShaped(input)) =>
        (output.series =>
            \E i \in DOMAIN input.kids :
                \/ Cardinality(KeywordKeys(input.kids[i].v)) >= 2
                \/ Cardinality(NumericFields(input.kids[i].v)) >= 2)
(***************************************************************************)
(* C28: the normalizer runs only when config.financialDataPath is set and  *)
(* the value at that path passes isFinancialTimeSeries.  With no path, a   *)
(* body or socket payload that is no array yields a batch of exactly one   *)
(* record, even when the body is a financial series; with a path whose     *)
(* value does not qualify, the whole raw body is flattened and no error is *)
(* reported.                                                               *)
(***************************************************************************)
PathSet == input.financialDataPath # NoPath

Qualifies == isFinancialTimeSeries(getNestedValue(input.rawData, input.financialDataPath))

C28_NormalizerOnlyAtPath ==
    "process" \in output.applied =>
        /\ output.batch.normalized <=> (PathSet /\ Qualifies)
        /\ (~PathSet /\ input.rawData.t # "array") =>
              /\ Len(output.batch.records) = 1
              /\ output.batch.totalCount = 1
              /\ output.batch.records[1] = flattenObject(input.rawData, << >>)
        /\ (PathSet /\ ~Qualifies) =>
              /\ output.batch.records = Flattened(input.rawData)
              /\ output.batch.success

\* a body that is itself a financial series was processed with no path
C28_Witness ==
    /\ "process" \in output.applied
    /\ ~PathSet
    /\ isFinancialTimeSeries(input.rawData)
    /\ Len(output.batch.records) = 1
(***************************************************************************)
(* C34: every batch passed to onUpdate, from HTTP or from a socket         *)
(* message, has totalCount equal to the number of its records: an array    *)
(* payload of n elements gives n records, one per element and an empty one *)
(* for an element that is no object, and a payload that is no array gives  *)
(* exactly 1 record.                                                       *)
(***************************************************************************)
\* the payload that is flattened: the normalized series or the raw body
Payload ==
    IF output.batch.normalized
    THEN JArr([i \in DOMAIN getNestedValue(input.rawData, input.financialDataPath).kids |->
                 JNull])
    ELSE input.rawData

RECURSIVE NodePaths(_)
NodePaths(fields) ==
    IF fields = << >> THEN << >>
    ELSE <<Head(fields).path>> \o NodePaths(Head(fields).children)
             \o NodePaths(Tail(fields))

Distinct(seq) == \A i, j \in DOMAIN seq : i # j => seq[i] # seq[j]

C31_PathsAreUnique ==
    /\ "tree" \in output.applied => Distinct(NodePaths(output.tree))
    /\ "paths" \in output.applied => Distinct(output.paths)
(***************************************************************************)
(* C32: when a raw WebSocket closes with code 1000 without a stop (the     *)
(* server closed it) and fewer than MAX_RECONNECT_ATTEMPTS attempts are    *)
(* counted, the manager removes the registry entry, schedules no           *)
(* reconnection, starts no polling and invokes no callback; the source     *)
(* then has no transport until start is called again.                      *)
(***************************************************************************)
FewAttempts(id) ==
    \A i \in DOMAIN sockets[id] :
        sockets[id][i].reconnectAttempts < MAX_RECONNECT_ATTEMPTS

C33_OneRegistryPerId ==
    \A id \in Ids : ~(pollingIntervals[id] /\ Registered(id) # {})
====
